---------------------------- MODULE Spec2Model ----------------------------
(***************************************************************************)
(* A model of techresidents/chatsvc: the per-chat state (chat.py), the     *)
(* request handler (handler.py), the N/W replicator (replication.py), the  *)
(* persister (persistence.py) and the garbage collector (garbage.py).      *)
(*                                                                         *)
(* Specifications:                                                         *)
(*   SpecChat      one Chat object under local sends and inbound           *)
(*                 replications                                            *)
(*   SpecRepl      a primary, its replicator and peers that may be down    *)
(*   SpecCluster, SpecCollect, SpecHandoff                                 *)
(*                 two nodes, the ring and the metadata store              *)
(*   SpecPair      two live nodes under consecutive sends, with fair       *)
(*                 scheduling of the replicator's greenlets                *)
(*   SpecQuorum    one send with any N >= W on a ring of one to            *)
(*                 NumQuorumNodes nodes, some of them down                 *)
(*   SpecUnavailable, SpecResend                                           *)
(*                 two nodes under sends that fail or repeat an id         *)
(*   SpecPoll      one Chat object under a long-poll and sends             *)
(*   SpecArchive, SpecZombie                                               *)
(*                 two nodes, a chat with a duration limit, the            *)
(*                 persister and the garbage collector                     *)
(*   SpecStore     two nodes and the store's message rows                  *)
(*   SpecRpc       the handler's calls on any ring, empty rings included   *)
(*   SpecAppend    one Chat object fed through both append paths           *)
(*   SpecGet       concurrent ChatManager.get calls for one token          *)
(*   SpecStop      ChatServiceHandler.stop beside a long-poll              *)
(*   SpecCommit    the archive run with failing store transactions         *)
(*   SpecDrain     a worker pool's queue under submits and stop()          *)
(*   SpecForward   a call forwarded between nodes with differing ring views*)
(*   SpecEndFailed the end-of-chat send whose replication fails, with fair *)
(*                 workers and collector                                   *)
(*   SpecRetire    a replica that leaves the ring before the chat ends     *)
(*   SpecIdle      concurrent polls over users that stopped polling        *)
(***************************************************************************)
EXTENDS Integers, Sequences, FiniteSets, TLC

(***************************************************************************)
(* Bounds of the model                                                     *)
(***************************************************************************)
MaxMsgs == 2
MaxClock == 1
MaxSnapshotLen == 2
NumReplNodes == 3
MaxSends == 2
MaxQueue == 1
MaxHandoffSends == 1
MaxArchiveJobs == 2
MaxStoreRows == 3
MaxAppend == 3
NumGetters == 3
MaxObjects == 2
PoolSize == 2
MaxPoolQueue == 2
MaxPoolItems == 4
MaxHops == 3
NumPollers == 2
MaxEpisodes == 2
MaxIdleTicks == 2
NumQuorumNodes == 5

(***************************************************************************)
(* Program constants                                                       *)
(***************************************************************************)
\* settings.REPLICATION_N, settings.REPLICATION_W (test settings)
REPLICATION_N == 3
REPLICATION_W == 2
PROD_REPLICATION_N == 1
PROD_REPLICATION_W == 1
\* ReplicationAsyncResult.max_errors
max_errors == 2
\* Chat.expiration_threshold
idle_threshold == 20

expiration_threshold == 360

\* ChatStatus, in the order a chat moves through it
PENDING == "PENDING"
STARTED == "STARTED"
ENDED == "ENDED"

ChatStatus == {PENDING, STARTED, ENDED}
StatusRank(status) == CASE status = PENDING -> 0 [] status = STARTED -> 1 [] status = ENDED -> 2
MsgIds == 1..MaxMsgs
Times == 0..MaxClock

(***************************************************************************)
(* Messages: header.id and header.timestamp are what the chat orders and   *)
(* de-duplicates on.                                                       *)
(***************************************************************************)
Message(id, ts) == [id |-> id, timestamp |-> ts]
Messages == [id : MsgIds, timestamp : Times]

(***************************************************************************)
(* bisect.bisect (bisect_right): binary search for the insertion point     *)
(* after any entries equal to x.                                           *)
(***************************************************************************)
RECURSIVE BisectLoop(_, _, _, _)
BisectLoop(a, x, lo, hi) ==
    IF lo < hi
    THEN LET mid == (lo + hi) \div 2
         IN  IF x < a[mid + 1]
             THEN BisectLoop(a, x, lo, mid)
             ELSE BisectLoop(a, x, mid + 1, hi)
    ELSE lo

bisect(a, x) == BisectLoop(a, x, 0, Len(a))

\* list.insert(index, e) with a 0-based index
Insert(s, index, e) == SubSeq(s, 1, index) \o <<e>> \o SubSeq(s, index + 1, Len(s))

(***************************************************************************)
(* Chat (chat.py)                                                          *)
(***************************************************************************)
NoUsers == <<>>
NoSession == "empty"

\* Chat.__init__
NewChat ==
    [status |-> PENDING,
     maxDuration |-> 0,
     startTimestamp |-> 0,
     endTimestamp |-> 0,
     users |-> NoUsers,
     persisted |-> FALSE,
     session |-> NoSession,
     messages |-> <<>>,
     message_timestamps |-> <<>>,
     message_history |-> {},
     loaded |-> FALSE]

\* The variant that appends instead of inserting at the bisect position.
_store_message_append(chat, message) ==
    IF message.id \notin chat.message_history
    THEN [chat EXCEPT
            !.message_history = @ \cup {message.id},
            !.message_timestamps = Append(@, message.timestamp),
            !.messages = Append(@, message)]
    ELSE chat

\* Chat._store_message
_store_message(chat, message) ==
    IF message.id \notin chat.message_history
    THEN LET index == bisect(chat.message_timestamps, message.timestamp)
         IN  [chat EXCEPT
                !.message_history = @ \cup {message.id},
                !.message_timestamps = Insert(@, index, message.timestamp),
                !.messages = Insert(@, index, message)]
    ELSE chat

\* The variant that stores nothing.
send_messages_dropped(chat, messages, t) == chat

\* The variant that keeps the timestamp each message carries.
RECURSIVE send_messages_unstamped(_, _, _)
send_messages_unstamped(chat, messages, now) ==
    IF messages = <<>>
    THEN chat
    ELSE send_messages_unstamped(_store_message(chat, Head(messages)), Tail(messages), now)

\* Chat.send_messages: every message not yet known is stamped with the
\* clock reading `now` and stored (the pulse of message_event is modelled
\* where the long poll is).
RECURSIVE send_messages(_, _, _)
send_messages(chat, messages, now) ==
    IF messages = <<>>
    THEN chat
    ELSE LET message == Head(messages)
             next == IF message.id \notin chat.message_history
                     THEN _store_message(chat, [message EXCEPT !.timestamp = now])
                     ELSE chat
         IN  send_messages(next, Tail(messages), now)

\* The variant of the duplicate check that a missing id test would give.
RECURSIVE store_replicated_messages_nocheck(_, _)
store_replicated_messages_nocheck(chat, messages) ==
    IF messages = <<>>
    THEN chat
    ELSE LET message == Head(messages)
             index == bisect(chat.message_timestamps, message.timestamp)
             next == [chat EXCEPT
                        !.message_history = @ \cup {message.id},
                        !.message_timestamps = Insert(@, index, message.timestamp),
                        !.messages = Insert(@, index, message)]
         IN  store_replicated_messages_nocheck(next, Tail(messages))

\* Chat.store_replicated_messages
RECURSIVE store_replicated_messages(_, _)
store_replicated_messages(chat, messages) ==
    IF messages = <<>>
    THEN chat
    ELSE LET message == Head(messages)
             next == IF message.id \notin chat.message_history
                     THEN _store_message(chat, message)
                     ELSE chat
         IN  store_replicated_messages(next, Tail(messages))

(***************************************************************************)
(* Snapshots (replication.py, handler.py)                                  *)
(***************************************************************************)
\* Replicator._build_chat_snapshot
_build_chat_snapshot(chat, messages) ==
    [fullSnapshot |-> (Len(chat.messages) = Len(messages)),
     state |-> [status |-> chat.status,
                maxDuration |-> chat.maxDuration,
                startTimestamp |-> chat.startTimestamp,
                endTimestamp |-> chat.endTimestamp,
                users |-> chat.users,
                persisted |-> chat.persisted,
                session |-> chat.session,
                messages |-> messages]]

\* ChatServiceHandler.replicate, applied to the chat that ChatManager.get
\* returned: the scalar state is overwritten, the messages are merged.
HandlerReplicate(chat, chatSnapshot) ==
    store_replicated_messages(
        [chat EXCEPT
            !.status = chatSnapshot.state.status,
            !.maxDuration = chatSnapshot.state.maxDuration,
            !.startTimestamp = chatSnapshot.state.startTimestamp,
            !.endTimestamp = chatSnapshot.state.endTimestamp,
            !.users = chatSnapshot.state.users,
            !.persisted = chatSnapshot.state.persisted,
            !.session = chatSnapshot.state.session],
        chatSnapshot.state.messages)

(***************************************************************************)
(* ChatManager (chat.py): the registry maps chat tokens to Chat objects.   *)
(***************************************************************************)
ChatToken == "T"
EmptyRegistry == [t \in {} |-> NewChat]

\* The chat's row in the metadata store (ChatModel), 0 standing for None,
\* and the number of archive-job rows the store holds for the chat.
NewModel == [present |-> TRUE, start |-> 0, end |-> 0, max_duration |-> 0, archive_jobs |-> 0]

\* The store has no row for the chat's token.
NoRow == [NewModel EXCEPT !.present = FALSE]

\* Chat.load, the query having returned the row `model`.  The end time is
\* assigned to state.endTimesamp, so endTimestamp keeps its value.
\* Without a row the query raises NoResultFound, which load catches before
\* it sets loaded_event.
ChatLoad(chat, model) ==
    LET c == [chat EXCEPT !.maxDuration = model.max_duration]
        d == IF model.end # 0
             THEN [c EXCEPT !.status = ENDED, !.startTimestamp = model.start]
             ELSE IF model.start # 0
                  THEN [c EXCEPT !.status = STARTED, !.startTimestamp = model.start]
                  ELSE c
    IN  IF model.present THEN [d EXCEPT !.loaded = TRUE] ELSE [chat EXCEPT !.loaded = TRUE]

\* Chat.save
ChatSave(chat, model) ==
    IF model.present
    THEN [model EXCEPT !.start = chat.startTimestamp, !.end = chat.endTimestamp]
    ELSE model

\* Chat.completed, Chat.expired
completed(chat) == chat.endTimestamp > 0
expired(chat, t) ==
    /\ chat.startTimestamp # 0
    /\ chat.maxDuration # 0
    /\ t > chat.startTimestamp + chat.maxDuration + expiration_threshold

\* The variant that makes a new Chat on every call.
ChatManagerGet_fresh(registry, chat_token, model) ==
    [t \in (DOMAIN registry) \cup {chat_token} |->
        IF t = chat_token THEN ChatLoad(NewChat, model) ELSE registry[t]]

\* ChatManager.get when the metadata load succeeds: create-if-absent.
ChatManagerGet(registry, chat_token, model) ==
    IF chat_token \in DOMAIN registry
    THEN registry
    ELSE registry @@ (chat_token :> ChatLoad(NewChat, model))

\* ChatManager.remove
ChatManagerRemove(registry, chat_token) ==
    [t \in (DOMAIN registry) \ {chat_token} |-> registry[t]]

Holds(registry, chat_token, id) ==
    /\ chat_token \in DOMAIN registry
    /\ id \in registry[chat_token].message_history

(***************************************************************************)
(* The service hashring (trsvcscore): a ring is a set of positions         *)
(* [token, node]; the preference list of a chat walks the ring clockwise   *)
(* from the chat token's hash and emits each service once.                 *)
(***************************************************************************)
hash(chat_token) == 0

\* e comes before f on the clockwise walk that starts at position h
Clockwise(h, e, f) ==
    IF (e.token >= h) = (f.token >= h) THEN e.token < f.token ELSE e.token >= h

RECURSIVE Walk(_, _, _)
Walk(h, positions, emitted) ==
    IF positions = {}
    THEN emitted
    ELSE LET e == CHOOSE x \in positions : \A y \in positions \ {x} : Clockwise(h, x, y)
         IN  Walk(h, positions \ {e},
                  IF \E i \in 1..Len(emitted) : emitted[i] = e.node
                  THEN emitted
                  ELSE Append(emitted, e.node))

\* ServiceHashring.preference_list(chat_token, hashring)
preference_list(chat_token, hashring) == Walk(hash(chat_token), hashring, <<>>)

(***************************************************************************)
(* Owner resolution (handler.py)                                           *)
(***************************************************************************)
NoNode == "none"

\* The variant that treats every node as the local one.
_is_remote_node_never(self, node) == FALSE

\* ChatServiceHandler._is_remote_node / Replicator._is_remote_node
_is_remote_node(self, node) == node # self

\* The variant that names a node when the preference list is empty.
_primary_node_some(chat_token, hashring) ==
    LET pl == preference_list(chat_token, hashring)
    IN  IF pl # <<>> THEN pl[1] ELSE "A"

\* ChatServiceHandler._primary_node
_primary_node(chat_token, hashring) ==
    LET pl == preference_list(chat_token, hashring)
    IN  IF pl # <<>> THEN pl[1] ELSE NoNode

(***************************************************************************)
(* SpecChat: one Chat object.  It receives local sends, each stamped with  *)
(* the node's clock, and inbound snapshots from peers in any order.        *)
(***************************************************************************)
VARIABLES
    chat,          \* the Chat object
    now,           \* the node's clock, tz.timestamp()
    lastOp,        \* the operation that produced this state
    reapplied,     \* the chat after the last snapshot is applied once more
    poll           \* the getMessages call of a reader of the chat

chatVars == <<chat, lastOp, reapplied, poll>>

\* SpecRepl: a primary, its replicator and its peers
VARIABLES
    ring,          \* the primary's view of the hashring
    registry,      \* per node: ChatManager._chats
    up,            \* per node: whether a replicate call to it succeeds
    call,          \* the sendMessage call being served by the primary
    jobs,          \* per replicate() call: the ReplicationItem and its result
    queue,         \* GreenletPoolReplicator.queue
    sent           \* number of sendMessage calls accepted so far

replVars == <<ring, registry, up, call, jobs, queue, sent>>

\* SpecCluster: two nodes, the ring in ZooKeeper and the metadata store
VARIABLES
    settings,      \* the settings module the nodes run with
    zk,            \* the positions registered in ZooKeeper
    view,          \* per node: the hashring as the node last saw it
    db,            \* the chat's row in the metadata store
    outbox,        \* per node: the replicator's queue
    net,           \* per node: its replicate call on the wire to the peer
    persistq,      \* per node: the persister's queue
    removed,       \* the chat that ChatManager.remove took out last
    change         \* what the last ring change meant for the chat

clusterVars == <<settings, zk, view, db, outbox, net, persistq, removed, change>>

\* The store's message rows and the persister that writes them
VARIABLES
    rows,          \* the chat's message rows in the store, in insert order
    persistItems,  \* per node: the PersistItems on the persister's queue
    persistWork,   \* per node: the item a persister worker is working on
    rpc            \* the last call of the service interface and its outcome

storeVars == <<rows, persistItems, persistWork>>

\* The tasks of one node: the handler's stop() and the callers of
\* ChatManager.get
VARIABLES
    shutdown,      \* the steps of ChatServiceHandler.stop() done so far
    getters,       \* per task: where its ChatManager.get call stands
    objects,       \* the Chat objects created for the token, in order
    pool,          \* a worker pool: its queue, its workers and its stop()
    idle           \* the users' states and the getMessages tasks that poll

taskVars == <<shutdown, getters, objects, pool, idle>>

svcVars == <<storeVars, rpc, taskVars>>

vars == <<chatVars, now, replVars, clusterVars, svcVars>>

\* No call has been made.
NoRpc ==
    [name |-> "none", node |-> "none", served |-> "none", result |-> "none",
     value |-> <<>>, empty |-> FALSE, changed |-> FALSE]

\* No pool has been started.
NoPool ==
    [running |-> FALSE, queue |-> <<>>, workers |-> <<>>, submitted |-> 0,
     processed |-> {}, stop |-> "none", stops |-> 0]

\* No user has joined and no task polls.
NoIdle == [users |-> <<>>, tasks |-> <<>>, appended |-> <<>>]

SvcIdle ==
    /\ rows = <<>>
    /\ persistItems = <<>>
    /\ persistWork = <<>>
    /\ rpc = NoRpc
    /\ shutdown = <<>>
    /\ getters = <<>>
    /\ objects = <<>>
    /\ pool = NoPool
    /\ idle = NoIdle

\* No getMessages call has been made.
NoPoll ==
    [state |-> "idle", asOf |-> 0, user_id |-> 0, block |-> FALSE, seen |-> 0,
     woken |-> <<>>, timedout |-> FALSE, result |-> <<>>]

ChatIdle ==
    /\ chat = NewChat
    /\ lastOp = "off"
    /\ reapplied = NewChat
    /\ poll = NoPoll

ClusterIdle ==
    /\ settings = <<>>
    /\ zk = {}
    /\ view = <<>>
    /\ db = NewModel
    /\ outbox = <<>>
    /\ net = <<>>
    /\ persistq = <<>>
    /\ removed = <<>>
    /\ change = <<>>

ReplIdle ==
    /\ ring = {}
    /\ registry = <<>>
    /\ up = <<>>
    /\ call = <<>>
    /\ jobs = <<>>
    /\ queue = <<>>
    /\ sent = 0

\* Message lists a peer can send: distinct ids, any timestamps.
DistinctIds(ms) == \A i, j \in 1..Len(ms) : i # j => ms[i].id # ms[j].id

SnapshotMessages ==
    {ms \in UNION {[1..n -> Messages] : n \in 0..MaxSnapshotLen} : DistinctIds(ms)}

\* Scalar chat states a peer can hold.
SnapshotProfiles ==
    { [status |-> PENDING, maxDuration |-> 0, startTimestamp |-> 0,
       endTimestamp |-> 0, users |-> NoUsers, persisted |-> FALSE,
       session |-> NoSession],
      [status |-> STARTED, maxDuration |-> 1, startTimestamp |-> 1,
       endTimestamp |-> 0, users |-> NoUsers, persisted |-> FALSE,
       session |-> "voice"],
      [status |-> ENDED, maxDuration |-> 1, startTimestamp |-> 1,
       endTimestamp |-> 1, users |-> NoUsers, persisted |-> TRUE,
       session |-> "voice"] }

Snapshots ==
    { [fullSnapshot |-> FALSE,
       state |-> [status |-> p.status, maxDuration |-> p.maxDuration,
                  startTimestamp |-> p.startTimestamp,
                  endTimestamp |-> p.endTimestamp, users |-> p.users,
                  persisted |-> p.persisted, session |-> p.session,
                  messages |-> ms]] : p \in SnapshotProfiles, ms \in SnapshotMessages }

InitChat ==
    /\ SvcIdle
    /\ chat = [NewChat EXCEPT !.loaded = TRUE]
    /\ now = 0
    /\ lastOp = "init"
    /\ reapplied = chat
    /\ poll = NoPoll
    /\ ReplIdle
    /\ ClusterIdle

\* The clock advances.
ChatTick ==
    /\ now < MaxClock
    /\ now' = now + 1
    /\ lastOp' = "tick"
    /\ reapplied' = chat
    /\ UNCHANGED <<svcVars, chat, poll, replVars, clusterVars>>

\* sendMessage on the primary reaches chat.send_messages([message]).
ChatSendLocal(id) ==
    /\ chat' = send_messages(chat, <<Message(id, 0)>>, now)
    /\ lastOp' = "send"
    /\ reapplied' = chat'
    /\ UNCHANGED <<svcVars, now, poll, replVars, clusterVars>>

\* A peer's replicate call arrives.
ChatReplicate(snapshot) ==
    /\ chat' = HandlerReplicate(chat, snapshot)
    /\ lastOp' = "replicate"
    /\ reapplied' = HandlerReplicate(chat', snapshot)
    /\ UNCHANGED <<svcVars, now, poll, replVars, clusterVars>>

NextChat ==
    \/ ChatTick
    \/ \E id \in MsgIds : ChatSendLocal(id)
    \/ \E snapshot \in Snapshots : ChatReplicate(snapshot)

SpecChat == InitChat /\ [][NextChat]_vars

(***************************************************************************)
(* C2                                                                      *)
(***************************************************************************)
StrictlySorted(ts) == \A i \in 1..(Len(ts) - 1) : ts[i] < ts[i + 1]
Sorted(ts) == \A i \in 1..(Len(ts) - 1) : ts[i] <= ts[i + 1]
UniqueIds(ms) == \A i, j \in 1..Len(ms) : i # j => ms[i].id # ms[j].id
TimestampsOf(ms) == [i \in 1..Len(ms) |-> ms[i].timestamp]

\* C2 as stated: in every reachable state the message list is sorted
\* strictly by header.timestamp and no message id occurs twice.
C2_StrictlySortedUnique ==
    /\ StrictlySorted(TimestampsOf(chat.messages))
    /\ UniqueIds(chat.messages)

\* C2 amended: in every reachable state the message list is sorted by
\* header.timestamp in ascending order, equal timestamps allowed, the
\* timestamp index is the list of the messages' timestamps, the id set is
\* the set of the messages' ids, and no message id occurs twice.
C2_SortedUnique ==
    /\ Sorted(TimestampsOf(chat.messages))
    /\ UniqueIds(chat.messages)
    /\ chat.message_timestamps = TimestampsOf(chat.messages)
    /\ chat.message_history = {chat.messages[i].id : i \in 1..Len(chat.messages)}

\* A chat that took a local send and an inbound replication and holds two
\* messages, the later-stored one with the smaller timestamp.
C2_Witness ==
    /\ Len(chat.messages) >= 2
    /\ lastOp \in {"send", "replicate"}
    /\ chat.messages[1].id > chat.messages[2].id
    /\ chat.messages[1].timestamp < chat.messages[2].timestamp

(***************************************************************************)
(* C5                                                                      *)
(***************************************************************************)
\* C5: applying a snapshot a second time leaves the chat (status,
\* timestamps, users, session, persisted, message list, timestamp index and
\* id set) equal to applying it once.
C5_ReplicateIdempotent ==
    lastOp = "replicate" => reapplied = chat

\* A snapshot with messages was merged into a chat that already held one.
C5_Witness ==
    /\ lastOp = "replicate"
    /\ Len(chat.messages) >= 2
    /\ chat.status = ENDED

(***************************************************************************)
(* SpecRepl: the primary of a chat serves sendMessage calls with           *)
(* parameters (N, W); its replicator fans each message out to the peers of *)
(* the preference list, which may be down.                                 *)
(***************************************************************************)
NodeNames == <<"A", "B", "C", "D", "E", "F">>
ReplNodes == {NodeNames[i] : i \in 1..NumReplNodes}
Self == NodeNames[1]

\* A cluster of k nodes: every node holds one position, the primary a
\* second one further on.
RingOf(k) ==
    {[token |-> i, node |-> NodeNames[i]] : i \in 1..k}
        \cup {[token |-> k + 1, node |-> Self]}

ReplParams == {-1} \cup (1..NumReplNodes)
JobIds == 1..MaxSends

NoJob ==
    [stage |-> "none", id |-> 0, messages |-> <<>>, N |-> 0, W |-> 0,
     preference_queue |-> <<>>, semaphore |-> 0, workers |-> {},
     values |-> 0, exceptions |-> 0, result |-> "pending"]

\* ReplicationAsyncResult.w_satisfied / n_satisfied
w_satisfied(job) == job.values >= job.W
n_satisfied(job) == job.values >= job.N

\* The variant that fires the result one write early.
AsyncResultSet_early(job) ==
    LET j == [job EXCEPT !.values = @ + 1]
    IN  IF j.values >= j.W - 1 THEN [j EXCEPT !.result = "ok"] ELSE j

\* ReplicationAsyncResult.set
AsyncResultSet(job) ==
    LET j == [job EXCEPT !.values = @ + 1]
    IN  IF w_satisfied(j) THEN [j EXCEPT !.result = "ok"] ELSE j

\* ReplicationAsyncResult.set_exception
AsyncResultSetException(job) ==
    LET j == [job EXCEPT !.exceptions = @ + 1]
    IN  IF j.exceptions > max_errors THEN [j EXCEPT !.result = "error"] ELSE j

\* The variant that leaves the result as it is.
AsyncResultFail_silent(job) == job

\* ReplicationAsyncResult.fail
AsyncResultFail(job) == [job EXCEPT !.result = "error"]

\* The variant that queues an item only for N > 2.
ReplicatorReplicate_unqueued(id, messages, N, W) ==
    LET n == IF N = -1 THEN REPLICATION_N ELSE N
        w == IF W = -1 THEN REPLICATION_W ELSE W
        job == AsyncResultSet([NoJob EXCEPT !.id = id, !.messages = messages,
                                            !.N = n, !.W = w])
    IN  [job EXCEPT !.stage = IF n > 2 THEN "queued" ELSE "done"]

\* GreenletPoolReplicator.replicate: the defaults for N and W, the result
\* with the local copy counted, and the item to queue when N > 1.
ReplicatorReplicate(id, messages, N, W) ==
    LET n == IF N = -1 THEN REPLICATION_N ELSE N
        w == IF W = -1 THEN REPLICATION_W ELSE W
        job == AsyncResultSet([NoJob EXCEPT !.id = id, !.messages = messages,
                                            !.N = n, !.W = w])
    IN  [job EXCEPT !.stage = IF n > 1 THEN "queued" ELSE "done"]

InitRepl ==
    /\ SvcIdle
    /\ ChatIdle
    /\ ClusterIdle
    /\ now = 0
    /\ ring \in {RingOf(k) : k \in 1..NumReplNodes}
    /\ registry = [n \in ReplNodes |-> EmptyRegistry]
    /\ up = [n \in ReplNodes |-> TRUE]
    /\ call = [state |-> "idle", id |-> 0, N |-> 0, W |-> 0, job |-> 0]
    /\ jobs = [j \in JobIds |-> NoJob]
    /\ queue = <<>>
    /\ sent = 0

\* sendMessage on the primary, up to the wait on the replication result:
\* owner resolution, ChatManager.get, send_messages, replicator.replicate.
ReplSendMessage(id, N, W) ==
    /\ call.state # "waiting"
    /\ sent < MaxSends
    /\ ~_is_remote_node(Self, _primary_node(ChatToken, ring))
    /\ LET reg == ChatManagerGet(registry[Self], ChatToken, NewModel)
           message == Message(id, now)
           stored == send_messages(reg[ChatToken], <<message>>, now)
       IN  /\ registry' = [registry EXCEPT ![Self] = [reg EXCEPT ![ChatToken] = stored]]
           /\ jobs' = [jobs EXCEPT ![sent + 1] = ReplicatorReplicate(id, <<message>>, N, W)]
           /\ queue' = IF jobs'[sent + 1].stage = "queued"
                       THEN Append(queue, sent + 1) ELSE queue
    /\ sent' = sent + 1
    /\ call' = [state |-> "waiting", id |-> id, N |-> N, W |-> W, job |-> sent + 1]
    /\ UNCHANGED <<svcVars, ring, up, now, chatVars, clusterVars>>

\* async_result.get returns the value: sendMessage returns the message.
ReplSendReturn ==
    /\ call.state = "waiting"
    /\ jobs[call.job].result = "ok"
    /\ call' = [call EXCEPT !.state = "ok"]
    /\ UNCHANGED <<svcVars, ring, registry, up, jobs, queue, sent, now, chatVars, clusterVars>>

\* async_result.get raises the replication error: UnavailableException.
ReplSendError ==
    /\ call.state = "waiting"
    /\ jobs[call.job].result = "error"
    /\ call' = [call EXCEPT !.state = "unavailable"]
    /\ UNCHANGED <<svcVars, ring, registry, up, jobs, queue, sent, now, chatVars, clusterVars>>

\* async_result.get times out after REPLICATION_TIMEOUT: UnavailableException.
ReplSendTimeout ==
    /\ call.state = "waiting"
    /\ jobs[call.job].result = "pending"
    /\ call' = [call EXCEPT !.state = "unavailable"]
    /\ UNCHANGED <<svcVars, ring, registry, up, jobs, queue, sent, now, chatVars, clusterVars>>

\* The variant whose semaphore does not discount the writes already counted.
ReplWorkerTake_wide ==
    /\ queue # <<>>
    /\ LET j == Head(queue)
           job == jobs[j]
       IN  jobs' = [jobs EXCEPT ![j] =
                [job EXCEPT !.stage = "loop",
                            !.preference_queue = preference_list(ChatToken, ring),
                            !.semaphore = job.W]]
    /\ queue' = Tail(queue)
    /\ UNCHANGED <<svcVars, ring, registry, up, call, sent, now, chatVars, clusterVars>>

\* GreenletPoolReplicator.run: a worker takes the next item and enters
\* _coordinate_replication.
ReplWorkerTake ==
    /\ queue # <<>>
    /\ LET j == Head(queue)
           job == jobs[j]
       IN  jobs' = [jobs EXCEPT ![j] =
                [job EXCEPT !.stage = "loop",
                            !.preference_queue = preference_list(ChatToken, ring),
                            !.semaphore = IF job.W - job.values > 1
                                          THEN job.W - job.values ELSE 1]]
    /\ queue' = Tail(queue)
    /\ UNCHANGED <<svcVars, ring, registry, up, call, sent, now, chatVars, clusterVars>>

\* One turn of the coordinator's loop: take a slot, then stop, skip the
\* local node, or spawn a send to the next node.
ReplCoordinate(j) ==
    /\ jobs[j].stage = "loop"
    /\ jobs[j].semaphore > 0
    /\ LET job == jobs[j]
       IN  IF job.preference_queue = <<>> \/ n_satisfied(job)
           THEN jobs' = [jobs EXCEPT ![j].stage =
                            IF n_satisfied(job) THEN "done" ELSE "join"]
           ELSE LET node == Head(job.preference_queue)
                IN  IF _is_remote_node(Self, node)
                    THEN jobs' = [jobs EXCEPT ![j].preference_queue = Tail(@),
                                              ![j].semaphore = @ - 1,
                                              ![j].workers = @ \cup {node}]
                    ELSE jobs' = [jobs EXCEPT ![j].preference_queue = Tail(@)]
    /\ UNCHANGED <<svcVars, ring, registry, up, call, queue, sent, now, chatVars, clusterVars>>

\* _replicate_to_node to a live peer: the peer's replicate handler merges
\* the snapshot, the result counts a write, the slot is released.
ReplSendOk(j, node) ==
    /\ node \in jobs[j].workers
    /\ up[node]
    /\ LET snapshot == _build_chat_snapshot(registry[Self][ChatToken], jobs[j].messages)
           reg == ChatManagerGet(registry[node], ChatToken, NewModel)
       IN  registry' = [registry EXCEPT ![node] =
                [reg EXCEPT ![ChatToken] = HandlerReplicate(@, snapshot)]]
    /\ jobs' = [jobs EXCEPT ![j] =
            [AsyncResultSet(jobs[j]) EXCEPT !.workers = @ \ {node}, !.semaphore = @ + 1]]
    /\ UNCHANGED <<svcVars, ring, up, call, queue, sent, now, chatVars, clusterVars>>

\* _replicate_to_node to a peer that is down: the result counts an error,
\* the slot is released.
ReplSendFail(j, node) ==
    /\ node \in jobs[j].workers
    /\ ~up[node]
    /\ jobs' = [jobs EXCEPT ![j] =
            [AsyncResultSetException(jobs[j]) EXCEPT !.workers = @ \ {node},
                                                     !.semaphore = @ + 1]]
    /\ UNCHANGED <<svcVars, ring, registry, up, call, queue, sent, now, chatVars, clusterVars>>

\* gevent.joinall(workers) has returned: a job short of W writes fails.
ReplCoordinateEnd(j) ==
    /\ jobs[j].stage = "join"
    /\ jobs[j].workers = {}
    /\ LET job == jobs[j]
       IN  jobs' = [jobs EXCEPT ![j] =
                [(IF ~n_satisfied(job) /\ ~w_satisfied(job)
                  THEN AsyncResultFail(job) ELSE job) EXCEPT !.stage = "done"]]
    /\ UNCHANGED <<svcVars, ring, registry, up, call, queue, sent, now, chatVars, clusterVars>>

\* A peer goes down or comes back.
ReplPeerFail(node) ==
    /\ node # Self
    /\ up[node]
    /\ up' = [up EXCEPT ![node] = FALSE]
    /\ UNCHANGED <<svcVars, ring, registry, call, jobs, queue, sent, now, chatVars, clusterVars>>

ReplPeerRecover(node) ==
    /\ node # Self
    /\ ~up[node]
    /\ up' = [up EXCEPT ![node] = TRUE]
    /\ UNCHANGED <<svcVars, ring, registry, call, jobs, queue, sent, now, chatVars, clusterVars>>

NextRepl ==
    \/ \E N \in ReplParams, W \in ReplParams : sent = 0 /\ ReplSendMessage(1, N, W)
    \/ ReplSendReturn
    \/ ReplSendError
    \/ ReplSendTimeout
    \/ ReplWorkerTake
    \/ \E j \in JobIds : ReplCoordinate(j)
    \/ \E j \in JobIds, node \in ReplNodes : ReplSendOk(j, node)
    \/ \E j \in JobIds, node \in ReplNodes : ReplSendFail(j, node)
    \/ \E j \in JobIds : ReplCoordinateEnd(j)
    \/ \E node \in ReplNodes : ReplPeerFail(node)
    \/ \E node \in ReplNodes : ReplPeerRecover(node)

SpecRepl == InitRepl /\ [][NextRepl]_vars

(***************************************************************************)
(* C1                                                                      *)
(***************************************************************************)
Holders(id) == {n \in ReplNodes : Holds(registry[n], ChatToken, id)}
EffectiveW(W) == IF W = -1 THEN REPLICATION_W ELSE W

\* C1: whenever sendMessage has returned success for parameters (N, W), at
\* least W distinct nodes, counting the primary, hold the message in their
\* chat state.
C1_QuorumHeld ==
    call.state = "ok" => Cardinality(Holders(call.id)) >= EffectiveW(call.W)

\* A send with W = 3 returned success after the job's sends to both peers.
C1_Witness ==
    /\ call.state = "ok"
    /\ call.W = 3
    /\ Cardinality(Holders(call.id)) >= 3

(***************************************************************************)
(* The cluster: two nodes A and B.  Each registers its position in         *)
(* ZooKeeper and sees the ring through its own view, which follows         *)
(* ZooKeeper one change at a time.  A node serves sendMessage when its own *)
(* view names it primary.  Messages are CHAT_STATUS messages; the write    *)
(* quorum is W = 1.                                                        *)
(*   SpecCluster  node B joins node A while chats are started, ended,      *)
(*                persisted and collected                                  *)
(*   SpecCollect  both nodes in a ring that stays as it is                 *)
(*   SpecHandoff  nodes leave, restart and rejoin                          *)
(***************************************************************************)
ClusterNodes == {"A", "B"}
Other(n) == CHOOSE m \in ClusterNodes : m # n

\* The positions the nodes hold when they are in the ring: B's comes first
\* on the walk from the chat's hash.
Positions == {[token |-> 1, node |-> "B"], [token |-> 2, node |-> "A"]}

TestSettings == [REPLICATION_N |-> REPLICATION_N, REPLICATION_W |-> REPLICATION_W]
ProdSettings == [REPLICATION_N |-> PROD_REPLICATION_N, REPLICATION_W |-> PROD_REPLICATION_W]

NoneRemoved ==
    [path |-> "none", node |-> NoNode, persisted |-> FALSE, loaded |-> FALSE,
     messages |-> 0, inPreferenceList |-> FALSE]
NoChange ==
    [handoff |-> FALSE, rejoin |-> FALSE, from |-> NoNode, to |-> NoNode, ids |-> {}]

SeqToSet(s) == {s[i] : i \in 1..Len(s)}
Take(s, k) == SubSeq(s, 1, IF Len(s) < k THEN Len(s) ELSE k)
HistoryOf(reg) == IF ChatToken \in DOMAIN reg THEN reg[ChatToken].message_history ELSE {}

\* StatusMessageHandler._handle_chat_status
_handle_chat_status(c, status, timestamp) ==
    LET c1 == IF c.status = PENDING /\ status = STARTED
              THEN [c EXCEPT !.status = status, !.startTimestamp = timestamp]
              ELSE c
    IN  IF c1.status = STARTED /\ status = ENDED
        THEN [c1 EXCEPT !.status = status, !.endTimestamp = timestamp]
        ELSE c1

\* The variant that replicates only for chats the node is primary for now.
_replication_nodes_current(self, N, previous_hashring, current_hashring, chat_token) ==
    LET current_preference_list == Take(preference_list(chat_token, current_hashring), N)
        previous_preference_list == Take(preference_list(chat_token, previous_hashring), N)
        previous_service_keys == SeqToSet(previous_preference_list)
    IN  IF /\ current_preference_list # <<>>
           /\ ~_is_remote_node(self, current_preference_list[1])
           /\ previous_preference_list # current_preference_list
        THEN SelectSeq(current_preference_list, LAMBDA node : node \notin previous_service_keys)
        ELSE <<>>

\* Replicator._replication_nodes
_replication_nodes(self, N, previous_hashring, current_hashring, chat_token) ==
    LET current_preference_list == Take(preference_list(chat_token, current_hashring), N)
        previous_preference_list == Take(preference_list(chat_token, previous_hashring), N)
        previous_service_keys == SeqToSet(previous_preference_list)
    IN  IF /\ \/ /\ previous_preference_list # <<>>
                 /\ ~_is_remote_node(self, previous_preference_list[1])
              \/ /\ current_preference_list # <<>>
                 /\ ~_is_remote_node(self, current_preference_list[1])
           /\ previous_preference_list # current_preference_list
        THEN SelectSeq(current_preference_list, LAMBDA node : node \notin previous_service_keys)
        ELSE <<>>

\* The item GreenletPoolReplicator.replicate queues: nothing when N <= 1.
ReplicationItems(messages, all, N, nodes) ==
    IF N > 1
    THEN <<[messages |-> messages, all |-> all, N |-> N, nodes |-> nodes]>>
    ELSE <<>>

\* Replicator.replicate_node_change for the chat of this node's registry
replicate_node_change(self, N, reg, previous_hashring, current_hashring) ==
    IF ChatToken \in DOMAIN reg
    THEN LET replication_nodes ==
                _replication_nodes(self, N, previous_hashring, current_hashring, ChatToken)
         IN  IF replication_nodes # <<>>
             THEN ReplicationItems(<<>>, TRUE, Len(replication_nodes) + 1, replication_nodes)
             ELSE <<>>
    ELSE <<>>

\* _coordinate_replication with every send succeeding: the remote nodes of
\* the preference list, in order, until N copies are counted.
_coordinate_targets(self, item, hashring) ==
    LET preference_queue == IF item.nodes # <<>> THEN item.nodes
                            ELSE preference_list(ChatToken, hashring)
    IN  Take(SelectSeq(preference_queue, LAMBDA node : _is_remote_node(self, node)),
             item.N - 1)

\* GarbageCollector._gc_chat_session without the test of persisted
_gc_chat_session_unpersisted(c, t) ==
    IF completed(c) \/ expired(c, t) THEN "remove" ELSE "keep"

\* GarbageCollector._gc_chat_session without the test of expired
_gc_chat_session_completed(c, t) ==
    IF completed(c)
    THEN IF c.persisted THEN "remove" ELSE "zombie"
    ELSE "keep"

\* The variant that reports only expired chats as zombies.
_gc_chat_session_expired(c, t) ==
    IF expired(c, t)
    THEN IF c.persisted THEN "remove" ELSE "zombie"
    ELSE IF completed(c) /\ c.persisted THEN "remove" ELSE "keep"

\* The variant that tests neither completed nor expired.
_gc_chat_session_always(c, t) ==
    IF c.persisted THEN "remove" ELSE "zombie"

\* GarbageCollector._gc_chat_session
_gc_chat_session(c, t) ==
    IF completed(c) \/ expired(c, t)
    THEN IF c.persisted THEN "remove" ELSE "zombie"
    ELSE "keep"

IsPrimary(n) == ~_is_remote_node(n, _primary_node(ChatToken, view[n]))
Synced == \A n \in ClusterNodes : view[n] = zk
NodesOf(hashring) == {p.node : p \in hashring}

\* What a change of the ring from `old` to `new` means for the chat: a
\* handoff when the primary moves from a node that holds the chat to the
\* other node, a rejoin when a node without the chat enters the ring while
\* the other node is in it and holds the chat.  ids are the messages the
\* receiver lacks.
ChangeOf(old, new) ==
    LET a == _primary_node(ChatToken, old)
        b == _primary_node(ChatToken, new)
        handoff == /\ a \in ClusterNodes
                   /\ b \in ClusterNodes
                   /\ a # b
                   /\ ChatToken \in DOMAIN registry[a]
        joined == {n \in NodesOf(new) \ NodesOf(old) :
                      /\ ChatToken \notin DOMAIN registry[n]
                      /\ Other(n) \in NodesOf(old)
                      /\ ChatToken \in DOMAIN registry[Other(n)]}
    IN  IF handoff
        THEN [handoff |-> TRUE, rejoin |-> b \in joined, from |-> a, to |-> b,
              ids |-> HistoryOf(registry[a]) \ HistoryOf(registry[b])]
        ELSE IF joined # {}
             THEN LET n == CHOOSE m \in joined : TRUE
                  IN  [handoff |-> FALSE, rejoin |-> TRUE, from |-> Other(n), to |-> n,
                       ids |-> HistoryOf(registry[Other(n)])]
             ELSE NoChange

replRest == <<ring, up, call, jobs, queue>>

InitClusterWith(hashring, model) ==
    /\ SvcIdle
    /\ ChatIdle
    /\ now = 1
    /\ ring = {} /\ up = <<>> /\ call = <<>> /\ jobs = <<>> /\ queue = <<>>
    /\ sent = 0
    /\ registry = [n \in ClusterNodes |-> EmptyRegistry]
    /\ settings \in {TestSettings, ProdSettings}
    /\ zk = hashring
    /\ view = [n \in ClusterNodes |-> zk]
    /\ db = model
    /\ outbox = [n \in ClusterNodes |-> <<>>]
    /\ net = [n \in ClusterNodes |-> <<>>]
    /\ persistq = [n \in ClusterNodes |-> {}]
    /\ removed = NoneRemoved
    /\ change = NoChange

InitClusterFrom(hashring) == InitClusterWith(hashring, NewModel)

\* Both nodes are in the ring.
InitCluster == InitClusterFrom(Positions)

\* Node A is in the ring, node B has not joined yet.
InitJoin == InitClusterFrom({p \in Positions : p.node = "A"})

\* sendMessage(message, N, W = 1) for a CHAT_STATUS message, on a node
\* that resolves itself as primary: ChatManager.get, the status handler,
\* send_messages, replicator.replicate, persister.persist.  The clock moves
\* on between two sends.
ClusterSend(n, status, N) ==
    /\ sent < MaxSends
    /\ IsPrimary(n)
    /\ LET reg == ChatManagerGet(registry[n], ChatToken, db)
           message == Message(sent + 1, now)
           handled == _handle_chat_status(reg[ChatToken], status, now)
           stored == send_messages(handled, <<message>>, now)
           items == ReplicationItems(<<message>>, FALSE, N, <<>>)
       IN  /\ ~expired(reg[ChatToken], now)
           /\ Len(outbox[n]) + Len(items) <= MaxQueue
           /\ registry' = [registry EXCEPT ![n] = [reg EXCEPT ![ChatToken] = stored]]
           /\ db' = IF handled # reg[ChatToken] THEN ChatSave(handled, db) ELSE db
           /\ outbox' = [outbox EXCEPT ![n] = @ \o items]
           /\ persistq' = IF status = ENDED
                          THEN [persistq EXCEPT ![n] = @ \cup {"ended"}]
                          ELSE persistq
    /\ sent' = sent + 1
    /\ now' = now + 1
    /\ UNCHANGED <<settings, zk, view, net, removed, change, replRest, chatVars>>

\* The same call while the store's message rows are left out of account.
ClusterSendMessage(n, status, N) == ClusterSend(n, status, N) /\ UNCHANGED svcVars

\* A replicator worker takes the next item, resolves where it goes and
\* puts the snapshot, built from the chat as it is now, on the wire.
ClusterSnapshotSend(n) ==
    /\ outbox[n] # <<>>
    /\ ChatToken \in DOMAIN registry[n]
    /\ LET item == Head(outbox[n])
           targets == _coordinate_targets(n, item, view[n])
           c == registry[n][ChatToken]
           messages == IF item.all THEN c.messages ELSE item.messages
       IN  IF targets = <<>>
           THEN net' = net
           ELSE /\ net[n] = <<>>
                /\ net' = [net EXCEPT ![n] =
                        <<[to |-> targets[1], snapshot |-> _build_chat_snapshot(c, messages)]>>]
    /\ outbox' = [outbox EXCEPT ![n] = Tail(@)]
    /\ UNCHANGED <<svcVars, settings, zk, view, db, persistq, removed, change,
                   registry, sent, now, replRest, chatVars>>

\* The peer's replicate handler runs for the call on the wire.
ClusterSnapshotDeliver(n) ==
    /\ net[n] # <<>>
    /\ LET to == net[n][1].to
           reg == ChatManagerGet(registry[to], ChatToken, db)
       IN  registry' = [registry EXCEPT ![to] =
                [reg EXCEPT ![ChatToken] = HandlerReplicate(@, net[n][1].snapshot)]]
    /\ net' = [net EXCEPT ![n] = <<>>]
    /\ UNCHANGED <<svcVars, settings, zk, view, db, outbox, persistq, removed, change,
                   sent, now, replRest, chatVars>>

\* A node registers a position in ZooKeeper.
ZkRegister(p) ==
    /\ Synced
    /\ p \notin zk
    /\ zk' = zk \cup {p}
    /\ change' = ChangeOf(zk, zk')
    /\ UNCHANGED <<svcVars, settings, view, db, outbox, net, persistq, removed,
                   registry, sent, now, replRest, chatVars>>

\* hashring.stop: the node's positions leave ZooKeeper.
ZkLeave(n) ==
    /\ Synced
    /\ n \in NodesOf(zk)
    /\ zk' = {p \in zk : p.node # n}
    /\ change' = ChangeOf(zk, zk')
    /\ UNCHANGED <<svcVars, settings, view, db, outbox, net, persistq, removed,
                   registry, sent, now, replRest, chatVars>>

\* The change reaches a node: its view moves on and the replicator's
\* _hashring_observer runs replicate_node_change(previous, current).
ClusterViewChange(n) ==
    /\ view[n] # zk
    /\ LET items == replicate_node_change(n, settings.REPLICATION_N, registry[n], view[n], zk)
       IN  /\ Len(outbox[n]) + Len(items) <= MaxQueue
           /\ outbox' = [outbox EXCEPT ![n] = @ \o items]
    /\ view' = [view EXCEPT ![n] = zk]
    /\ UNCHANGED <<settings, zk, db, net, persistq, removed, change,
                   registry, sent, now, replRest, chatVars>>

ClusterDeliverView(n) == ClusterViewChange(n) /\ UNCHANGED svcVars

\* A node that is out of the ring restarts: its memory is gone.
ClusterLoseChat(n) ==
    /\ n \notin NodesOf(zk)
    /\ n \notin NodesOf(view[n])
    /\ ChatToken \in DOMAIN registry[n]
    /\ registry' = [registry EXCEPT ![n] = EmptyRegistry]
    /\ outbox' = [outbox EXCEPT ![n] = <<>>]
    /\ persistq' = [persistq EXCEPT ![n] = {}]
    /\ UNCHANGED <<svcVars, settings, zk, view, db, net, removed, change,
                   sent, now, replRest, chatVars>>

\* A persister worker takes an item: the archive job is inserted when the
\* chat is not persisted yet, and the observer starts the final replication.
ClusterPersist(n, kind) ==
    /\ kind \in persistq[n]
    /\ ChatToken \in DOMAIN registry[n]
    /\ LET c == registry[n][ChatToken]
           items == IF c.persisted THEN <<>>
                    ELSE ReplicationItems(<<>>, FALSE, settings.REPLICATION_N, <<>>)
       IN  /\ Len(outbox[n]) + Len(items) <= MaxQueue
           /\ outbox' = [outbox EXCEPT ![n] = @ \o items]
           /\ registry' = [registry EXCEPT ![n][ChatToken].persisted = TRUE]
           /\ IF c.persisted
              THEN db' = db
              ELSE /\ db.archive_jobs < MaxArchiveJobs
                   /\ db' = [db EXCEPT !.archive_jobs = @ + 1]
    /\ persistq' = [persistq EXCEPT ![n] = @ \ {kind}]
    /\ UNCHANGED <<svcVars, settings, zk, view, net, removed, change,
                   sent, now, replRest, chatVars>>

\* The garbage collector reaches the chat.
ClusterGC(n) ==
    /\ ChatToken \in DOMAIN registry[n]
    /\ LET c == registry[n][ChatToken]
           decision == _gc_chat_session(c, now)
       IN  /\ decision # "keep"
           /\ IF decision = "remove"
              THEN /\ outbox[n] = <<>>
                   /\ persistq[n] = {}
                   /\ registry' = [registry EXCEPT ![n] = ChatManagerRemove(@, ChatToken)]
                   /\ removed' = [path |-> "gc", node |-> n, persisted |-> c.persisted,
                                  loaded |-> c.loaded, messages |-> Len(c.messages),
                                  inPreferenceList |->
                                      n \in SeqToSet(preference_list(ChatToken, view[n]))]
                   /\ persistq' = persistq
              ELSE /\ persistq' = IF IsPrimary(n)
                                  THEN [persistq EXCEPT ![n] = @ \cup {"zombie"}]
                                  ELSE persistq
                   /\ UNCHANGED <<registry, removed>>
    /\ UNCHANGED <<svcVars, settings, zk, view, db, outbox, net, change,
                   sent, now, replRest, chatVars>>

\* ChatManager.get for a token the node does not hold, the metadata query
\* raising: the new Chat is registered, load raises, the Chat is removed.
ClusterLoadFail(n) ==
    /\ ChatToken \notin DOMAIN registry[n]
    /\ LET reg == registry[n] @@ (ChatToken :> NewChat)
           c == reg[ChatToken]
       IN  /\ registry' = [registry EXCEPT ![n] = ChatManagerRemove(reg, ChatToken)]
           /\ removed' = [path |-> "load", node |-> n, persisted |-> c.persisted,
                          loaded |-> c.loaded, messages |-> Len(c.messages),
                          inPreferenceList |->
                              n \in SeqToSet(preference_list(ChatToken, view[n]))]
    /\ UNCHANGED <<svcVars, settings, zk, view, db, outbox, net, persistq, change,
                   sent, now, replRest, chatVars>>

SendParams == {1, 2}

NextCluster ==
    \/ \E n \in ClusterNodes, status \in {STARTED, ENDED}, N \in SendParams :
            ClusterSendMessage(n, status, N)
    \/ \E n \in ClusterNodes : ClusterSnapshotSend(n)
    \/ \E n \in ClusterNodes : ClusterSnapshotDeliver(n)
    \/ \E p \in Positions : ZkRegister(p)
    \/ \E n \in ClusterNodes : ClusterDeliverView(n)
    \/ \E n \in ClusterNodes, kind \in {"ended", "zombie"} : ClusterPersist(n, kind)
    \/ \E n \in ClusterNodes : ClusterGC(n)
    \/ \E n \in ClusterNodes : ClusterLoadFail(n)

SpecCluster == InitJoin /\ [][NextCluster]_vars

(***************************************************************************)
(* SpecCollect: the same cluster while the ring stays as it is: sends,     *)
(* replication, the persister and the garbage collector.                   *)
(***************************************************************************)
NextCollect ==
    \/ \E n \in ClusterNodes, status \in {STARTED, ENDED}, N \in SendParams :
            ClusterSendMessage(n, status, N)
    \/ \E n \in ClusterNodes : ClusterSnapshotSend(n)
    \/ \E n \in ClusterNodes : ClusterSnapshotDeliver(n)
    \/ \E n \in ClusterNodes, kind \in {"ended", "zombie"} : ClusterPersist(n, kind)
    \/ \E n \in ClusterNodes : ClusterGC(n)
    \/ \E n \in ClusterNodes : ClusterLoadFail(n)

SpecCollect == InitCluster /\ [][NextCollect]_vars

(***************************************************************************)
(* SpecHandoff: the same cluster with the persister and the garbage        *)
(* collector idle and messages that leave the chat's status alone; nodes   *)
(* leave the ring, restart and come back.                                  *)
(***************************************************************************)
NextHandoff ==
    \/ \E n \in ClusterNodes, N \in SendParams :
            sent < MaxHandoffSends /\ ClusterSendMessage(n, PENDING, N)
    \/ \E n \in ClusterNodes : ClusterSnapshotSend(n)
    \/ \E n \in ClusterNodes : ClusterSnapshotDeliver(n)
    \/ \E p \in Positions : ZkRegister(p)
    \/ \E n \in ClusterNodes : ZkLeave(n)
    \/ \E n \in ClusterNodes : ClusterDeliverView(n)
    \/ \E n \in ClusterNodes : ClusterLoseChat(n)

SpecHandoff == InitCluster /\ [][NextHandoff]_vars

(***************************************************************************)
(* C3                                                                      *)
(***************************************************************************)
\* C3: on every node, no step moves the status of a chat the node holds
\* back to an earlier value of PENDING -> STARTED -> ENDED.
C3_StatusForward ==
    [][\A n \in ClusterNodes :
          (ChatToken \in DOMAIN registry[n] /\ ChatToken \in DOMAIN registry'[n])
              => StatusRank(registry'[n][ChatToken].status)
                     >= StatusRank(registry[n][ChatToken].status)]_vars

(***************************************************************************)
(* C4                                                                      *)
(***************************************************************************)
\* C4: on every node, no step takes the persisted flag of a chat the node
\* holds from true back to false.
C4_PersistedStays ==
    [][\A n \in ClusterNodes :
          (/\ ChatToken \in DOMAIN registry[n]
           /\ ChatToken \in DOMAIN registry'[n]
           /\ registry[n][ChatToken].persisted)
              => registry'[n][ChatToken].persisted]_vars

(***************************************************************************)
(* C6                                                                      *)
(***************************************************************************)
\* C6: at any moment at most one of the nodes A and B resolves itself as
\* the primary of the chat under its own ring view.
C6_SinglePrimary == ~(IsPrimary("A") /\ IsPrimary("B"))

(***************************************************************************)
(* C7                                                                      *)
(***************************************************************************)
\* C7 as stated: a chat removed from a node's registry, by the garbage
\* collector or by the load-failure path of ChatManager.get, has persisted
\* true at removal, or the node is nowhere in the chat's preference list.
C7_RemovedPersistedOrOut ==
    removed.path # "none" => (removed.persisted \/ ~removed.inPreferenceList)

\* C7 amended: a chat removed by the garbage collector has persisted true
\* at removal; the load-failure path removes the Chat that the same get
\* has just created, which is not loaded, holds no message and is not
\* persisted, wherever the node stands in the preference list.
C7_RemovedByPath ==
    removed.path # "none" =>
        \/ removed.path = "gc" /\ removed.persisted
        \/ /\ removed.path = "load"
           /\ ~removed.loaded
           /\ ~removed.persisted
           /\ removed.messages = 0

\* The garbage collector removed a chat with messages from a node of the
\* chat's preference list.
C7_Witness ==
    /\ removed.path = "gc"
    /\ removed.inPreferenceList
    /\ removed.messages > 0

(***************************************************************************)
(* C8, C9                                                                  *)
(***************************************************************************)
\* Every view shows the ring as ZooKeeper has it and no replication is
\* queued or on the wire.
Settled ==
    /\ Synced
    /\ \A n \in ClusterNodes : outbox[n] = <<>> /\ net[n] = <<>>

StillHeld == change.ids \cap HistoryOf(registry[change.from])
FirstN == SeqToSet(Take(preference_list(ChatToken, zk), settings.REPLICATION_N))

\* C8: when the last ring change moved the primary from a node that held
\* messages the new primary lacked, then once the change has settled the
\* new primary holds each of them that the old primary still holds.
C8_HandoffKeepsMessages ==
    (change.handoff /\ Settled) => StillHeld \subseteq HistoryOf(registry[change.to])

\* C9 as stated: when the last ring change brought back a node without the
\* chat while its peer held it, then once the change has settled the
\* rejoined node holds every message the peer held then and holds now.
C9_RejoinGetsSnapshot ==
    (change.rejoin /\ Settled) => StillHeld \subseteq HistoryOf(registry[change.to])

\* C9 amended: the same for a node that rejoins among the first
\* REPLICATION_N nodes of the chat's preference list.
C9_RejoinInFirstN ==
    (change.rejoin /\ Settled /\ change.to \in FirstN)
        => StillHeld \subseteq HistoryOf(registry[change.to])

\* A node rejoined behind its peer, the change has settled and the node
\* holds the peer's messages.
C9_Witness ==
    /\ change.rejoin
    /\ ~change.handoff
    /\ Settled
    /\ change.to \in FirstN
    /\ change.ids # {}
    /\ change.ids \subseteq HistoryOf(registry[change.to])


(***************************************************************************)
(* SpecPair: two live nodes, the primary A and its peer B, as in           *)
(* ReplicationTest.test_replication.  A serves consecutive sendMessage     *)
(* calls with N = 2, W = 1 while the clock may advance between them.  The  *)
(* replicator's greenlets and the calls to B are scheduled fairly: gevent  *)
(* runs every greenlet that is ready, and B answers every call.            *)
(***************************************************************************)
\* The parameters of the test's sendMessage calls
TEST_N == 2
TEST_W == 1

Peer == NodeNames[2]

MessagesOf(reg) == IF ChatToken \in DOMAIN reg THEN reg[ChatToken].messages ELSE <<>>

InitPair ==
    /\ SvcIdle
    /\ ChatIdle
    /\ ClusterIdle
    /\ now = 0
    /\ ring = RingOf(2)
    /\ registry = [n \in ReplNodes |-> EmptyRegistry]
    /\ up = [n \in ReplNodes |-> TRUE]
    /\ call = [state |-> "idle", id |-> 0, N |-> 0, W |-> 0, job |-> 0]
    /\ jobs = [j \in JobIds |-> NoJob]
    /\ queue = <<>>
    /\ sent = 0

\* tz.timestamp() returns a later value.
PairTick ==
    /\ now < MaxClock
    /\ now' = now + 1
    /\ UNCHANGED <<svcVars, chatVars, replVars, clusterVars>>

\* The next sendMessage call of the client; each message has its own id.
PairSendMessage == ReplSendMessage(sent + 1, TEST_N, TEST_W)

NextPair ==
    \/ PairTick
    \/ PairSendMessage
    \/ ReplSendReturn
    \/ ReplWorkerTake
    \/ \E j \in JobIds : ReplCoordinate(j)
    \/ \E j \in JobIds : ReplSendOk(j, Peer)

FairPair ==
    /\ WF_vars(ReplSendReturn)
    /\ WF_vars(ReplWorkerTake)
    /\ \A j \in JobIds : WF_vars(ReplCoordinate(j))
    /\ \A j \in JobIds : WF_vars(ReplSendOk(j, Peer))

SpecPair == InitPair /\ [][NextPair]_vars /\ FairPair

(***************************************************************************)
(* C10                                                                     *)
(***************************************************************************)
\* B's messages are messages of A, each once, any two of them with
\* different timestamps stand in B's list as they stand in A's, and once B
\* holds as many messages as A the two lists show the same timestamps.
SameTimestampOrder ==
    LET a == MessagesOf(registry[Self])
        b == MessagesOf(registry[Peer])
    IN  /\ SeqToSet(b) \subseteq SeqToSet(a)
        /\ UniqueIds(b)
        /\ \A i, j \in 1..Len(b) : \A k, l \in 1..Len(a) :
               (b[i] = a[k] /\ b[j] = a[l] /\ k < l
                    /\ a[k].timestamp < a[l].timestamp) => i < j
        /\ Len(b) = Len(a) => TimestampsOf(b) = TimestampsOf(a)

\* C10: with two live nodes A (primary) and B and N = 2, W = 1, every message
\* that sendMessage on A accepted is eventually stored on B, and B's message
\* list is in the same timestamp order as A's, for every number of
\* consecutive sends up to MaxSends.
C10_ReplicatedInOrder ==
    /\ []SameTimestampOrder
    /\ \A id \in JobIds :
          (call.state = "ok" /\ call.id = id) ~> Holds(registry[Peer], ChatToken, id)

\* MaxSends sends were accepted at different times and B holds them all.
C10_Witness ==
    /\ sent = MaxSends
    /\ call.state = "ok"
    /\ Len(MessagesOf(registry[Peer])) = MaxSends
    /\ MessagesOf(registry[Peer]) = MessagesOf(registry[Self])
    /\ MessagesOf(registry[Self])[1].timestamp < MessagesOf(registry[Self])[MaxSends].timestamp

(***************************************************************************)
(* SpecQuorum: one sendMessage with parameters (N, W) on a cluster of k    *)
(* nodes, some of whose peers went down before the call and stay down.    *)
(* Every peer that is up answers within REPLICATION_TIMEOUT, and gevent    *)
(* runs every greenlet that is ready.                                      *)
(***************************************************************************)
QuorumNodes == {NodeNames[i] : i \in 1..NumQuorumNodes}
QuorumParams == {p \in (1..NumQuorumNodes) \X (1..NumQuorumNodes) : p[2] <= p[1]}

InitQuorum ==
    /\ SvcIdle
    /\ ChatIdle
    /\ ClusterIdle
    /\ now = 0
    /\ ring = RingOf(1)
    /\ registry = [n \in QuorumNodes |-> EmptyRegistry]
    /\ up = [n \in QuorumNodes |-> TRUE]
    /\ call = [state |-> "idle", id |-> 0, N |-> 0, W |-> 0, job |-> 0]
    /\ jobs = [j \in JobIds |-> NoJob]
    /\ queue = <<>>
    /\ sent = 0

\* Before the call: the next node registers with the ring.
QuorumJoin ==
    /\ sent = 0
    /\ Cardinality(NodesOf(ring)) < NumQuorumNodes
    /\ ring' = RingOf(Cardinality(NodesOf(ring)) + 1)
    /\ UNCHANGED <<svcVars, registry, up, call, jobs, queue, sent, now, chatVars, clusterVars>>

\* Before the call: a peer goes down; it stays down for the call.
QuorumPeerFail(node) == sent = 0 /\ ReplPeerFail(node)

\* The result has fired and get() in sendMessage has not returned yet.
\* gevent wakes the waiter from the callback the firing scheduled, which
\* runs before any later step of the replicator's greenlets.
Notified ==
    /\ call.state = "waiting"
    /\ jobs[call.job].result \in {"ok", "error"}

\* The steps of the handler's and the replicator's greenlets.
QuorumProgress ==
    \/ ReplSendReturn
    \/ ReplSendError
    \/ ~Notified /\ ReplWorkerTake
    \/ \E j \in JobIds : ~Notified /\ ReplCoordinate(j)
    \/ \E j \in JobIds, node \in QuorumNodes : ~Notified /\ ReplSendOk(j, node)
    \/ \E j \in JobIds, node \in QuorumNodes : ~Notified /\ ReplSendFail(j, node)
    \/ \E j \in JobIds : ~Notified /\ ReplCoordinateEnd(j)

NextQuorum ==
    \/ QuorumJoin
    \/ \E node \in QuorumNodes : QuorumPeerFail(node)
    \/ \E p \in QuorumParams : sent = 0 /\ ReplSendMessage(1, p[1], p[2])
    \/ QuorumProgress

\* A greenlet that is ready runs.
FairQuorum == WF_vars(QuorumProgress)

SpecQuorum == InitQuorum /\ [][NextQuorum]_vars /\ FairQuorum

\* The nodes of the cluster and those of them that are live.
ClusterSize == Cardinality(NodesOf(ring))
LiveNodes == {n \in NodesOf(ring) : up[n]}
Returned == call.state \in {"ok", "unavailable"}

(***************************************************************************)
(* C11                                                                     *)
(***************************************************************************)
\* The outcome of a returned sendMessage(N = k, W = k) on a cluster of k
\* nodes: success with k live nodes, Unavailable with k - 1.
QuorumOutcome ==
    (Returned /\ call.N = ClusterSize /\ call.W = ClusterSize) =>
        /\ Cardinality(LiveNodes) = ClusterSize => call.state = "ok"
        /\ Cardinality(LiveNodes) = ClusterSize - 1 => call.state = "unavailable"

\* While the call waits for the result some greenlet of the handler or the
\* replicator is ready to run (QuorumReady collects the guards of the steps
\* of QuorumProgress); each of their steps uses up a queue entry, a
\* node of the preference queue, a worker or the call, so under FairQuorum
\* the call returns.
QuorumReady ==
    \/ Notified
    \/ queue # <<>>
    \/ \E j \in JobIds : jobs[j].stage = "loop" /\ jobs[j].semaphore > 0
    \/ \E j \in JobIds : jobs[j].workers # {}
    \/ \E j \in JobIds : jobs[j].stage = "join" /\ jobs[j].workers = {}
QuorumReadyIsEnabled == QuorumReady <=> ENABLED QuorumProgress
QuorumNeverStuck == call.state = "waiting" => QuorumReady
QuorumReturns == (call.state = "waiting") ~> Returned

\* C11: for every k >= 1, sendMessage with N = k and W = k on a cluster of k
\* nodes is never left waiting, and it returns success when all peers are
\* live and Unavailable when only k - 1 of the nodes are live.
C11_AllOrUnavailable == QuorumOutcome /\ QuorumNeverStuck

\* Both outcomes on the largest cluster.
C11_Witness ==
    /\ Returned
    /\ call.N = NumQuorumNodes
    /\ call.W = NumQuorumNodes
    /\ ClusterSize = NumQuorumNodes
    /\ Cardinality(LiveNodes) = NumQuorumNodes - 1
    /\ call.state = "unavailable"
    /\ jobs[call.job].values = NumQuorumNodes - 1

(***************************************************************************)
(* C13 (SpecQuorum)                                                        *)
(***************************************************************************)
\* C13: when remote sends of a replication job have failed and W copies,
\* the local one counted, are written, the write succeeds: sendMessage does
\* not fail with Unavailable, whatever the number and the order of the
\* failing peers ahead of the succeeding ones.
C13_QuorumDespiteFailures ==
    \A j \in JobIds :
        (call.job = j /\ jobs[j].exceptions >= 1 /\ w_satisfied(jobs[j]))
            => call.state # "unavailable"

\* The same for a job with at most max_errors failed sends: its result is
\* set to the value and the call returns it.
QuorumWithinMaxErrors ==
    \A j \in JobIds :
        (call.job = j /\ jobs[j].exceptions >= 1 /\ w_satisfied(jobs[j])
            /\ jobs[j].exceptions <= max_errors)
            => /\ jobs[j].result = "ok"
               /\ call.state \in {"waiting", "ok"}

(***************************************************************************)
(* SpecUnavailable: the primary A and a peer B that goes down and comes    *)
(* back.  A serves consecutive sendMessage calls with N = 2 and W = 1 or   *)
(* W = 2; a call that waits for its quorum may run into                    *)
(* REPLICATION_TIMEOUT.                                                    *)
(***************************************************************************)
InitUnavailable == InitPair

NextUnavailable ==
    \/ PairTick
    \/ \E W \in 1..TEST_N : ReplSendMessage(sent + 1, TEST_N, W)
    \/ ReplSendReturn
    \/ ReplSendError
    \/ ReplSendTimeout
    \/ ReplWorkerTake
    \/ \E j \in JobIds : ReplCoordinate(j)
    \/ \E j \in JobIds : ReplSendOk(j, Peer)
    \/ \E j \in JobIds : ReplSendFail(j, Peer)
    \/ \E j \in JobIds : ReplCoordinateEnd(j)
    \/ ReplPeerFail(Peer)
    \/ ReplPeerRecover(Peer)

SpecUnavailable == InitUnavailable /\ [][NextUnavailable]_vars

(***************************************************************************)
(* C12                                                                     *)
(***************************************************************************)
\* The primary's chat holds every message it took, in timestamp order.
LocalAppendsKept ==
    LET c == registry[Self][ChatToken]
    IN  /\ \A id \in 1..sent : Holds(registry[Self], ChatToken, id)
        /\ Len(c.messages) = sent
        /\ Sorted(TimestampsOf(c.messages))
        /\ c.message_timestamps = TimestampsOf(c.messages)

\* C12: a sendMessage whose replication job ends short of W writes, or
\* whose wait times out, does not return success; and when sendMessage has
\* failed with Unavailable its message, like every message taken before, is
\* in the primary's chat at its timestamp position.
C12_UnavailableKeepsLocal ==
    /\ (call.state = "ok" =>
            w_satisfied(jobs[call.job]) /\ jobs[call.job].result = "ok")
    /\ (call.state = "unavailable" => LocalAppendsKept)

\* The second call failed because its job ended short of W = 2 writes.
C12_Witness ==
    /\ call.state = "unavailable"
    /\ sent = MaxSends
    /\ jobs[call.job].result = "error"
    /\ jobs[call.job].stage = "done"
    /\ ~w_satisfied(jobs[call.job])
    /\ Len(registry[Self][ChatToken].messages) = MaxSends

(***************************************************************************)
(* SpecResend: the primary A and its live peer B; a client sends new       *)
(* messages and sends messages again whose header.id the chat already      *)
(* holds, with N = 1 or N = 2 and W = 1.                                   *)
(***************************************************************************)
InitResend == InitPair

\* A message with an id of its own.
ResendNew(N) ==
    ReplSendMessage(Cardinality(HistoryOf(registry[Self])) + 1, N, TEST_W)

\* A message whose header.id is in the chat already.
ResendDuplicate(id, N) ==
    /\ id \in HistoryOf(registry[Self])
    /\ ReplSendMessage(id, N, TEST_W)

NextResend ==
    \/ PairTick
    \/ \E N \in 1..TEST_N : ResendNew(N)
    \/ \E id \in JobIds, N \in 1..TEST_N : ResendDuplicate(id, N)
    \/ ReplSendReturn
    \/ ReplWorkerTake
    \/ \E j \in JobIds : ReplCoordinate(j)
    \/ \E j \in JobIds : ReplSendOk(j, Peer)

SpecResend == InitResend /\ [][NextResend]_vars

(***************************************************************************)
(* C14                                                                     *)
(***************************************************************************)
\* C14: a sendMessage whose header.id is already present in the chat leaves
\* the chat's message list and state unchanged and starts no replication
\* job (the call returning without error is the step to call.state "ok").
C14_DuplicateIgnored ==
    [][(sent' = sent + 1 /\ call'.id \in HistoryOf(registry[Self]))
        => /\ registry'[Self] = registry[Self]
           /\ queue' = queue
           /\ jobs'[call'.job].stage # "queued"]_vars

(***************************************************************************)
(* SpecPoll: one Chat on its primary, a sender and a reader.  The reader   *)
(* calls getMessages, which may block on chat.message_event; the sender's  *)
(* send_messages stores a message and pulses the event.  gevent switches   *)
(* greenlets only where one of them blocks, so the reader's scan and its   *)
(* registration with the event are one step, and so are the sender's       *)
(* append and pulse; a pulse wakes every reader that waits at that         *)
(* moment.  The chat has no users, so handle_poll adds no message.         *)
(***************************************************************************)
BROADCAST_ROUTE == "BROADCAST_ROUTE"
TARGETED_ROUTE == "TARGETED_ROUTE"
NO_ROUTE == "NO_ROUTE"
MessageRouteType == {BROADCAST_ROUTE, TARGETED_ROUTE, NO_ROUTE}

\* requestContext.userId of the readers, and None
UserIds == {1, 2}
NoUserId == -1

RoutedMessage(id, type, recipients) ==
    [id |-> id, timestamp |-> 0, route |-> type, recipients |-> recipients]

\* Chat._filter_messages.  The TARGETED_ROUTE branch reads the attribute
\* route.recpiients, which a MessageRoute does not have: for a user_id that
\* is not 0 or None the read raises AttributeError.
RECURSIVE FilterLoop(_, _, _)
FilterLoop(messages, user_id, result) ==
    IF messages = <<>>
    THEN [raised |-> FALSE, messages |-> result]
    ELSE LET message == Head(messages)
         IN  IF message.route = NO_ROUTE
             THEN FilterLoop(Tail(messages), user_id, result)
             ELSE IF message.route = TARGETED_ROUTE /\ user_id \notin {0, NoUserId}
                  THEN [raised |-> TRUE, messages |-> <<>>]
                  ELSE FilterLoop(Tail(messages), user_id, Append(result, message))

_filter_messages(messages, user_id) == FilterLoop(messages, user_id, <<>>)

\* The variant that filters for every reader.
get_messages_scan_filtered(c, asOf, user_id) ==
    LET index == bisect(c.message_timestamps, asOf)
    IN  _filter_messages(SubSeq(c.messages, index + 1, Len(c.messages)), user_id)

\* Chat.get_messages for an asOf that is not None: the scan it makes on
\* entry and once more after the wait.
get_messages_scan(c, asOf, user_id) ==
    LET index == bisect(c.message_timestamps, asOf)
        messages == SubSeq(c.messages, index + 1, Len(c.messages))
    IN  IF user_id # NoUserId
        THEN _filter_messages(messages, user_id)
        ELSE [raised |-> FALSE, messages |-> messages]

\* The variant that reports an empty scan as an error.
PollOutcome_strict(p, scan) ==
    IF scan.raised \/ scan.messages = <<>>
    THEN [p EXCEPT !.state = "failed", !.result = <<>>]
    ELSE [p EXCEPT !.state = "returned", !.result = scan.messages]

\* The outcome of a scan for the caller of getMessages: the list, or the
\* exception that the handler turns into UnavailableException.
PollOutcome(p, scan) ==
    IF scan.raised
    THEN [p EXCEPT !.state = "failed", !.result = <<>>]
    ELSE [p EXCEPT !.state = "returned", !.result = scan.messages]

InitPoll ==
    /\ SvcIdle
    /\ chat = [NewChat EXCEPT !.loaded = TRUE]
    /\ lastOp = "off"
    /\ reapplied = NewChat
    /\ poll = NoPoll
    /\ now = 0
    /\ ReplIdle
    /\ ClusterIdle

\* getMessages up to the wait on message_event.
PollGetMessages(asOf, user_id, block) ==
    /\ poll.state \in {"idle", "returned", "failed"}
    /\ LET p == [NoPoll EXCEPT !.asOf = asOf, !.user_id = user_id, !.block = block,
                               !.seen = Len(chat.messages)]
           scan == get_messages_scan(chat, asOf, user_id)
       IN  poll' = IF ~scan.raised /\ scan.messages = <<>> /\ block
                   THEN [p EXCEPT !.state = "waiting"]
                   ELSE PollOutcome(p, scan)
    /\ UNCHANGED <<svcVars, chat, lastOp, reapplied, now, replVars, clusterVars>>

\* sendMessage reaches chat.send_messages([message]): the message is
\* stamped and stored, trigger_messages sets and clears message_event.
PollSendMessage(type, recipients) ==
    /\ Len(chat.messages) < MaxMsgs
    /\ LET message == RoutedMessage(Len(chat.messages) + 1, type, recipients)
       IN  /\ chat' = send_messages(chat, <<message>>, now)
           /\ poll' = IF poll.state = "waiting"
                      THEN [poll EXCEPT !.state = "woken",
                                        !.woken = <<[message EXCEPT !.timestamp = now]>>]
                      ELSE poll
    /\ UNCHANGED <<svcVars, lastOp, reapplied, now, replVars, clusterVars>>

\* The woken reader runs: message_event.wait returns and get_messages scans
\* once more.
PollResume ==
    /\ poll.state = "woken"
    /\ poll' = PollOutcome(poll, get_messages_scan(chat, poll.asOf, poll.user_id))
    /\ UNCHANGED <<svcVars, chat, lastOp, reapplied, now, replVars, clusterVars>>

\* The timeout of the wait expires before any pulse.
PollTimeout ==
    /\ poll.state = "waiting"
    /\ poll' = PollOutcome([poll EXCEPT !.timedout = TRUE],
                           get_messages_scan(chat, poll.asOf, poll.user_id))
    /\ UNCHANGED <<svcVars, chat, lastOp, reapplied, now, replVars, clusterVars>>

NextPoll ==
    \/ PairTick
    \/ \E asOf \in Times, user_id \in UserIds \cup {NoUserId}, block \in BOOLEAN :
            PollGetMessages(asOf, user_id, block)
    \/ \E type \in MessageRouteType, user_id \in UserIds :
            PollSendMessage(type, IF type = TARGETED_ROUTE THEN {user_id} ELSE {})
    \/ PollResume
    \/ PollTimeout

SpecPoll == InitPoll /\ [][NextPoll]_vars

(***************************************************************************)
(* C15                                                                     *)
(***************************************************************************)
\* The message is routed to the reader.
RoutedTo(message, user_id) ==
    \/ message.route = BROADCAST_ROUTE
    \/ message.route = TARGETED_ROUTE /\ user_id \in message.recipients

\* C15: a reader blocked in getMessages with asOf = T does not stay blocked
\* over a local append, and when the message that released it has a
\* timestamp > T and is routed to the reader, getMessages returns a list
\* that contains it.
C15_WakeUpDelivers ==
    /\ poll.state = "waiting" => Len(chat.messages) = poll.seen
    /\ \A i \in 1..Len(poll.woken) :
          (poll.state \in {"returned", "failed"}
              /\ poll.woken[i].timestamp > poll.asOf
              /\ RoutedTo(poll.woken[i], poll.user_id))
          => /\ poll.state = "returned"
             /\ poll.woken[i] \in SeqToSet(poll.result)

\* The same for the messages the filter can pass: broadcast messages.
WakeUpDeliversBroadcast ==
    /\ poll.state = "waiting" => Len(chat.messages) = poll.seen
    /\ \A i \in 1..Len(poll.woken) :
          (poll.state = "returned"
              /\ poll.woken[i].timestamp > poll.asOf
              /\ poll.woken[i].route = BROADCAST_ROUTE)
          => poll.woken[i] \in SeqToSet(poll.result)

(***************************************************************************)
(* C16 (SpecPoll)                                                          *)
(***************************************************************************)
\* C16: getMessages with block = true whose wait ends by the timeout, the
\* chat having received no message in between, returns an empty list and
\* raises no error.
C16_TimeoutReturnsEmpty ==
    poll.timedout => /\ poll.block
                     /\ poll.state = "returned"
                     /\ poll.result = <<>>

\* A reader of a chat that holds messages up to its asOf timed out.
C16_Witness ==
    /\ poll.timedout
    /\ poll.state = "returned"
    /\ poll.user_id \in UserIds
    /\ Len(chat.messages) = MaxMsgs
    /\ chat.messages[1].route = TARGETED_ROUTE


(***************************************************************************)
(* C17 (SpecCollect)                                                       *)
(***************************************************************************)
\* getMessages(asOf = 0, block = false) served by node n for a reader whom
\* every message is routed to: the ids of the messages it returns.
ServedRead(n) ==
    LET reg == ChatManagerGet(registry[n], ChatToken, db)
        scan == get_messages_scan(reg[ChatToken], 0, NoUserId)
    IN  {scan.messages[i].id : i \in 1..Len(scan.messages)}

TimedModel == [NewModel EXCEPT !.max_duration = 1]

InitArchive == InitClusterWith(Positions, TimedModel)

\* The clock passes the expiration window of every chat started so far.
ClusterExpire ==
    /\ now <= expiration_threshold
    /\ now' = now + db.max_duration + expiration_threshold
    /\ UNCHANGED <<svcVars, registry, sent, replRest, chatVars, clusterVars>>

\* getMessages, or a sendMessage that finds the chat expired, on the
\* primary that does not hold the chat: ChatManager.get registers a new
\* Chat and loads it.
ClusterRead(n) ==
    /\ IsPrimary(n)
    /\ ChatToken \notin DOMAIN registry[n]
    /\ registry' = [registry EXCEPT ![n] = ChatManagerGet(@, ChatToken, db)]
    /\ UNCHANGED <<svcVars, now, sent, replRest, chatVars, clusterVars>>

NextArchive ==
    \/ \E n \in ClusterNodes, status \in {STARTED, ENDED}, N \in SendParams :
            ClusterSendMessage(n, status, N)
    \/ \E n \in ClusterNodes : ClusterSnapshotSend(n)
    \/ \E n \in ClusterNodes : ClusterSnapshotDeliver(n)
    \/ \E n \in ClusterNodes, kind \in {"ended", "zombie"} : ClusterPersist(n, kind)
    \/ \E n \in ClusterNodes : ClusterGC(n)
    \/ \E n \in ClusterNodes : ClusterRead(n)
    \/ ClusterExpire

SpecArchive == InitArchive /\ [][NextArchive]_vars

(***************************************************************************)
(* C18                                                                     *)
(***************************************************************************)
\* C18: at most one archive job is ever inserted into the store for the
\* chat, over end-of-chat sends, zombie events, garbage-collection removals
\* and re-loads of the chat.
C18_OneArchiveJob == db.archive_jobs <= 1

(***************************************************************************)
(* C19  The end-of-chat send and the archive job                           *)
(***************************************************************************)
\* The step is a sendMessage on n that ends the chat: the chat the call
\* works on was not ENDED and is ENDED when the call returns.
EndsChat(n) ==
    /\ sent' = sent + 1
    /\ ChatManagerGet(registry[n], ChatToken, db)[ChatToken].status # ENDED
    /\ ChatToken \in DOMAIN registry'[n]
    /\ registry'[n][ChatToken].status = ENDED

\* C19: when the primary accepts a message that ends the chat, then at the
\* moment sendMessage returns an archive job for the chat exists in the
\* store and chat.persisted is true.
C19_ArchivedAtReturn ==
    [][\A n \in ClusterNodes :
            EndsChat(n) => /\ db'.archive_jobs >= 1
                           /\ registry'[n][ChatToken].persisted]_vars

(***************************************************************************)
(* SpecZombie: the chat is started and never ended; the clock passes its   *)
(* expiration window.  The garbage collector's cycle, the persister's and  *)
(* the replicator's workers keep running.                                  *)
(***************************************************************************)
NextZombie ==
    \/ \E n \in ClusterNodes, N \in SendParams : ClusterSendMessage(n, STARTED, N)
    \/ \E n \in ClusterNodes : ClusterSnapshotSend(n)
    \/ \E n \in ClusterNodes : ClusterSnapshotDeliver(n)
    \/ \E n \in ClusterNodes : ClusterPersist(n, "zombie")
    \/ \E n \in ClusterNodes : ClusterGC(n)
    \/ ClusterExpire

FairZombie ==
    \A n \in ClusterNodes :
        /\ WF_vars(ClusterGC(n))
        /\ WF_vars(ClusterPersist(n, "zombie"))
        /\ WF_vars(ClusterSnapshotSend(n))
        /\ WF_vars(ClusterSnapshotDeliver(n))

SpecZombie == InitArchive /\ [][NextZombie]_vars /\ FairZombie

\* Node n holds the chat, expired, without an end time and not persisted.
ZombieHeld(n) ==
    /\ ChatToken \in DOMAIN registry[n]
    /\ expired(registry[n][ChatToken], now)
    /\ ~completed(registry[n][ChatToken])
    /\ ~registry[n][ChatToken].persisted

\* The store holds an archive job and n's chat is persisted.
Archived(n) ==
    /\ db.archive_jobs >= 1
    /\ ChatToken \in DOMAIN registry[n]
    /\ registry[n][ChatToken].persisted

PersistItem(n, messages, all) == [node |-> n, messages |-> messages, all |-> all]

ItemsOf(n) == SelectSeq(persistItems, LAMBDA item : item.node = n)
WithoutFirstOf(n, items) ==
    LET i == CHOOSE k \in 1..Len(items) :
                 /\ items[k].node = n
                 /\ \A j \in 1..(k - 1) : items[j].node # n
    IN  SubSeq(items, 1, i - 1) \o SubSeq(items, i + 1, Len(items))

\* Persister._get_unpersisted_messages: the chat's messages whose id has
\* no row in the store.
_get_unpersisted_messages(c, stored) ==
    SelectSeq(c.messages, LAMBDA message : \A i \in 1..Len(stored) : stored[i] # message.id)

\* Persister._hashring_observer: the chats of a node that becomes primary
\* and was not primary before get a persist-all item.
PersistTakeover(n, reg, previous_hashring, current_hashring) ==
    LET previous_preference_list == preference_list(ChatToken, previous_hashring)
        current_preference_list == preference_list(ChatToken, current_hashring)
    IN  IF /\ ChatToken \in DOMAIN reg
           /\ previous_preference_list # <<>>
           /\ current_preference_list # <<>>
           /\ current_preference_list[1] = n
           /\ previous_preference_list[1] # n
        THEN <<PersistItem(n, <<>>, TRUE)>>
        ELSE <<>>

\* sendMessage: persister.persist(chat, messages) puts the item on the queue.
StoreSendMessage(n, N) ==
    /\ sent < MaxHandoffSends
    /\ Len(ItemsOf(n)) < MaxQueue
    /\ ClusterSend(n, PENDING, N)
    /\ persistItems' = Append(persistItems, PersistItem(n, <<Message(sent + 1, now)>>, FALSE))
    /\ UNCHANGED <<rows, persistWork, rpc, taskVars>>

\* A ring change reaches the node: the replicator's and the persister's
\* observers run.
StoreDeliverView(n) ==
    /\ LET items == PersistTakeover(n, registry[n], view[n], zk)
       IN  /\ Len(ItemsOf(n)) + Len(items) <= MaxQueue
           /\ persistItems' = persistItems \o items
    /\ ClusterViewChange(n)
    /\ UNCHANGED <<rows, persistWork, rpc, taskVars>>

\* A worker of n's persister takes the next item; for a persist-all item
\* it reads the rows of the store to find the messages to write.
StoreWorkerTake(n) ==
    /\ ItemsOf(n) # <<>>
    /\ \A i \in 1..Len(persistWork) : persistWork[i].node # n
    /\ LET item == Head(ItemsOf(n))
           messages == IF item.all
                       THEN IF ChatToken \in DOMAIN registry[n]
                            THEN _get_unpersisted_messages(registry[n][ChatToken], rows)
                            ELSE <<>>
                       ELSE item.messages
       IN  persistWork' = Append(persistWork, [item EXCEPT !.messages = messages])
    /\ persistItems' = WithoutFirstOf(n, persistItems)
    /\ UNCHANGED <<rows, rpc, taskVars, now, replVars, clusterVars, chatVars>>

\* The worker adds one row per message of its item and commits.
StoreWorkerCommit(n) ==
    /\ \E i \in 1..Len(persistWork) :
          /\ persistWork[i].node = n
          /\ Len(rows) + Len(persistWork[i].messages) <= MaxStoreRows
          /\ rows' = rows \o [k \in 1..Len(persistWork[i].messages) |->
                                  persistWork[i].messages[k].id]
          /\ persistWork' = SubSeq(persistWork, 1, i - 1)
                                \o SubSeq(persistWork, i + 1, Len(persistWork))
    /\ UNCHANGED <<persistItems, rpc, taskVars, now, replVars, clusterVars, chatVars>>

NextStore ==
    \/ \E n \in ClusterNodes, N \in SendParams : StoreSendMessage(n, N)
    \/ \E n \in ClusterNodes : ClusterSnapshotSend(n)
    \/ \E n \in ClusterNodes : ClusterSnapshotDeliver(n)
    \/ \E p \in Positions : ZkRegister(p)
    \/ \E n \in ClusterNodes : ZkLeave(n)
    \/ \E n \in ClusterNodes : StoreDeliverView(n)
    \/ \E n \in ClusterNodes : StoreWorkerTake(n)
    \/ \E n \in ClusterNodes : StoreWorkerCommit(n)

SpecStore == InitCluster /\ [][NextStore]_vars

RowsOf(id) == Cardinality({i \in 1..Len(rows) : rows[i] = id})

\* C21: every message accepted by sendMessage gets exactly one message row
\* in the store: no message id ever has two rows, whatever the order in
\* which the persisters' workers run, the persist-all item of a node that
\* takes the chat over included.
C21_OneRowPerMessage == \A id \in 1..MaxHandoffSends : RowsOf(id) <= 1

(***************************************************************************)
(* SpecRpc: the calls of the service interface.  Each node sees the ring   *)
(* it starts with (no node, one node or both); a call arrives at a node,   *)
(* is served there or forwarded to the primary, and its outcome (the       *)
(* return or the exception that leaves the handler method) is recorded.    *)
(***************************************************************************)
RpcModels == {NewModel, TimedModel, NoRow}

InitRpc ==
    /\ \E hashring \in SUBSET Positions, model \in RpcModels :
            InitClusterWith(hashring, model)
    /\ settings = TestSettings

\* The snapshots a peer sends with replicate.
RpcSnapshots ==
    {s \in Snapshots : /\ s.state.status = STARTED
                      /\ s.state.messages \in {<<>>, <<Message(1, 1)>>}}

\* ServiceHashring.hashring(): the positions in the order of their tokens.
RECURSIVE HashringNodes(_)
HashringNodes(hashring) ==
    IF hashring = {}
    THEN <<>>
    ELSE LET first == CHOOSE p \in hashring : \A q \in hashring : p.token <= q.token
         IN  <<first.node>> \o HashringNodes(hashring \ {first})

RpcRecord(name, o, p, result, value, changed) ==
    [name |-> name, node |-> o, served |-> p, result |-> result,
     value |-> value, empty |-> (view[o] = {}), changed |-> changed]

\* The node that serves a call arriving at o: o itself or the primary the
\* call is forwarded to, which resolves itself as primary.
Serves(o, p) ==
    /\ p = _primary_node(ChatToken, view[o])
    /\ p \in ClusterNodes
    /\ ~_is_remote_node(p, _primary_node(ChatToken, view[p]))

\* getMessages or sendMessage with no node in the ring.
RpcNoNodes(o, name) ==
    /\ _primary_node(ChatToken, view[o]) = NoNode
    /\ rpc' = RpcRecord(name, o, NoNode, "Unavailable", <<>>, FALSE)
    /\ UNCHANGED <<storeVars, taskVars, now, replVars, clusterVars, chatVars>>

\* getMessages, served by the primary: ChatManager.get, the test of
\* expired, a read that does not block.
RpcGetMessages(o) ==
    \E p \in ClusterNodes :
        /\ Serves(o, p)
        /\ LET reg == ChatManagerGet(registry[p], ChatToken, db)
           IN  /\ registry' = [registry EXCEPT ![p] = reg]
               /\ rpc' = IF expired(reg[ChatToken], now)
                         THEN RpcRecord("getMessages", o, p, "InvalidChat", <<>>,
                                        registry' # registry)
                         ELSE RpcRecord("getMessages", o, p, "ok", <<>>,
                                        registry' # registry)
        /\ UNCHANGED <<storeVars, taskVars, now, sent, replRest,
                       clusterVars, chatVars>>

\* sendMessage, served by the primary and accepted.
RpcSendMessage(o, status, N) ==
    \E p \in ClusterNodes :
        /\ Serves(o, p)
        /\ ClusterSend(p, status, N)
        /\ rpc' = RpcRecord("sendMessage", o, p, "ok", <<>>, TRUE)
        /\ UNCHANGED <<storeVars, taskVars>>

\* sendMessage for a chat that has expired.
RpcSendExpired(o) ==
    \E p \in ClusterNodes :
        /\ Serves(o, p)
        /\ LET reg == ChatManagerGet(registry[p], ChatToken, db)
           IN  /\ expired(reg[ChatToken], now)
               /\ registry' = [registry EXCEPT ![p] = reg]
               /\ rpc' = RpcRecord("sendMessage", o, p, "InvalidChat", <<>>,
                                   registry' # registry)
        /\ UNCHANGED <<storeVars, taskVars, now, sent, replRest,
                       clusterVars, chatVars>>

\* sendMessage of a CHAT_STATUS message whose handler raises: the status
\* handler has assigned the status and the timestamp when chat.save()
\* raises; MessageHandlerManager.handle turns the error into a
\* MessageHandlerException and sendMessage into InvalidMessage.
RpcSendHandlerError(o, status) ==
    \E p \in ClusterNodes :
        /\ Serves(o, p)
        /\ LET reg == ChatManagerGet(registry[p], ChatToken, db)
               handled == _handle_chat_status(reg[ChatToken], status, now)
           IN  /\ ~expired(reg[ChatToken], now)
               /\ handled # reg[ChatToken]
               /\ registry' = [registry EXCEPT ![p] = [reg EXCEPT ![ChatToken] = handled]]
               /\ rpc' = RpcRecord("sendMessage", o, p, "InvalidMessage", <<>>,
                                   registry' # registry)
        /\ UNCHANGED <<storeVars, taskVars, now, sent, replRest,
                       clusterVars, chatVars>>

\* getMessages or sendMessage whose forward to the primary fails in the
\* transport: the proxy call is made outside the try block and its error
\* leaves the handler method as it is.
RpcForwardFail(o, name) ==
    /\ _primary_node(ChatToken, view[o]) \in ClusterNodes
    /\ _is_remote_node(o, _primary_node(ChatToken, view[o]))
    /\ rpc' = RpcRecord(name, o, _primary_node(ChatToken, view[o]),
                        "TransportError", <<>>, FALSE)
    /\ UNCHANGED <<storeVars, taskVars, now, replVars, clusterVars, chatVars>>

\* replicate: the snapshot of a peer is applied.
RpcReplicate(n, chatSnapshot) ==
    /\ LET reg == ChatManagerGet(registry[n], ChatToken, db)
       IN  registry' = [registry EXCEPT ![n] =
               [reg EXCEPT ![ChatToken] = HandlerReplicate(@, chatSnapshot)]]
    /\ rpc' = RpcRecord("replicate", n, n, "ok", <<>>, registry' # registry)
    /\ UNCHANGED <<storeVars, taskVars, now, sent, replRest,
                   clusterVars, chatVars>>

RpcGetHashring(n) ==
    /\ rpc' = RpcRecord("getHashring", n, n, "ok", HashringNodes(view[n]), FALSE)
    /\ UNCHANGED <<storeVars, taskVars, now, replVars, clusterVars, chatVars>>

RpcGetPreferenceList(n) ==
    /\ rpc' = RpcRecord("getPreferenceList", n, n, "ok",
                        preference_list(ChatToken, view[n]), FALSE)
    /\ UNCHANGED <<storeVars, taskVars, now, replVars, clusterVars, chatVars>>

NextRpc ==
    \/ \E o \in ClusterNodes, name \in {"getMessages", "sendMessage"} : RpcNoNodes(o, name)
    \/ \E o \in ClusterNodes : RpcGetMessages(o)
    \/ \E o \in ClusterNodes, status \in {STARTED, ENDED} :
            RpcSendMessage(o, status, 1)
    \/ \E o \in ClusterNodes : RpcSendExpired(o)
    \/ \E o \in ClusterNodes, status \in {STARTED, ENDED} : RpcSendHandlerError(o, status)
    \/ \E o \in ClusterNodes, name \in {"getMessages", "sendMessage"} : RpcForwardFail(o, name)
    \/ \E n \in ClusterNodes, chatSnapshot \in RpcSnapshots : RpcReplicate(n, chatSnapshot)
    \/ \E n \in ClusterNodes : RpcGetHashring(n)
    \/ \E n \in ClusterNodes : RpcGetPreferenceList(n)
    \/ ClusterExpire

SpecRpc == InitRpc /\ [][NextRpc]_vars

(***************************************************************************)
(* C22  The empty hashring                                                 *)
(***************************************************************************)
\* C22: when the hashring is empty, every call of the service
\* (getMessages, sendMessage, replicate, getHashring, getPreferenceList)
\* returns Unavailable and changes no chat state.
C22_EmptyRingUnavailable ==
    rpc.empty => (rpc.result = "Unavailable" /\ ~rpc.changed)

\* C22 amended: when the hashring is empty, getMessages and sendMessage
\* return Unavailable and change no chat state; getHashring and
\* getPreferenceList return an empty list; replicate does not look at the
\* hashring and applies the snapshot.
C22_EmptyRingByCall ==
    rpc.empty =>
        /\ rpc.name \in {"getMessages", "sendMessage"}
               => (rpc.result = "Unavailable" /\ ~rpc.changed)
        /\ rpc.name \in {"getHashring", "getPreferenceList"}
               => (rpc.result = "ok" /\ rpc.value = <<>> /\ ~rpc.changed)
        /\ rpc.name = "replicate"
               => (rpc.result = "ok" /\ ChatToken \in DOMAIN registry[rpc.node])

C22_Witness ==
    /\ rpc.empty
    /\ rpc.name = "sendMessage"
    /\ rpc.result = "Unavailable"
    /\ ChatToken \in DOMAIN registry[rpc.node]
    /\ registry[rpc.node][ChatToken].messages # <<>>

(***************************************************************************)
(* C23  Forwarded calls                                                    *)
(***************************************************************************)
\* C23: a getMessages or sendMessage that arrives at a node which is not
\* the chat's primary is forwarded to the primary and returns its response,
\* and every failure of the forward (peer down, transport error, error
\* raised by the peer's call) reaches the caller as Unavailable.
C23_ForwardFailureUnavailable ==
    (rpc.served \in ClusterNodes /\ rpc.served # rpc.node)
        => rpc.result \in {"ok", "Unavailable"}

(***************************************************************************)
(* C24  A token without a row in the metadata store                        *)
(***************************************************************************)
\* C24: for a token that has no row in the metadata store ChatManager.get
\* fails: sendMessage and getMessages return InvalidChat, and the registry
\* of the serving node holds no Chat marked as loaded for the token.
C24_UnknownTokenInvalidChat ==
    (/\ ~db.present
     /\ rpc.name \in {"getMessages", "sendMessage"}
     /\ rpc.served \in ClusterNodes
     /\ rpc.result # "TransportError")
        => /\ rpc.result = "InvalidChat"
           /\ \/ ChatToken \notin DOMAIN registry[rpc.served]
              \/ ~registry[rpc.served][ChatToken].loaded

(***************************************************************************)
(* C26  A message handler that raises                                      *)
(***************************************************************************)
\* C26: a sendMessage that fails with InvalidMessage because a message
\* handler raised leaves the chat as it was before the call: no message
\* appended, nothing queued for replication or persistence, and status,
\* timestamps and users unchanged.
C26_HandlerErrorLeavesChat ==
    [][(/\ rpc'.name = "sendMessage"
        /\ rpc'.result = "InvalidMessage"
        /\ ChatToken \in DOMAIN registry[rpc'.served])
            => /\ registry'[rpc'.served][ChatToken] = registry[rpc'.served][ChatToken]
               /\ outbox' = outbox
               /\ persistq' = persistq]_vars

AppendIds == 1..MaxAppend

\* The timestamp the message carries when it arrives: distinct per id.
GivenMessage(id) == Message(id, id)

InitAppend ==
    /\ SvcIdle
    /\ chat = [NewChat EXCEPT !.loaded = TRUE]
    /\ reapplied = [NewChat EXCEPT !.loaded = TRUE]
    /\ lastOp = "init"
    /\ poll = NoPoll
    /\ now = 0
    /\ ReplIdle
    /\ ClusterIdle

AppendTick ==
    /\ now < MaxAppend + MaxClock
    /\ now' = now + 1
    /\ lastOp' = "tick"
    /\ UNCHANGED <<svcVars, chat, reapplied, poll, replVars, clusterVars>>

AppendMessage(id) ==
    /\ id \notin chat.message_history
    /\ chat' = send_messages(chat, <<GivenMessage(id)>>, now)
    /\ reapplied' = store_replicated_messages(reapplied, <<GivenMessage(id)>>)
    /\ lastOp' = "send"
    /\ UNCHANGED <<svcVars, now, poll, replVars, clusterVars>>

NextAppend ==
    \/ AppendTick
    \/ \E id \in AppendIds : AppendMessage(id)

SpecAppend == InitAppend /\ [][NextAppend]_vars

\* The messages received so far, ordered by the timestamps they carried.
RECURSIVE ByGivenTimestamp(_)
ByGivenTimestamp(ids) ==
    IF ids = {}
    THEN <<>>
    ELSE LET first == CHOOSE id \in ids :
                          \A other \in ids :
                              GivenMessage(id).timestamp <= GivenMessage(other).timestamp
         IN  <<GivenMessage(first)>> \o ByGivenTimestamp(ids \ {first})

\* C28: messages with distinct ids and distinct timestamps appended to an
\* empty chat with send_messages give, in whatever order they are appended,
\* the same final list: the messages ordered by their timestamps.
C28_AppendOrderIndependent ==
    [i \in 1..Len(chat.messages) |-> chat.messages[i].id]
        = [i \in 1..Len(chat.messages) |-> ByGivenTimestamp(chat.message_history)[i].id]

\* C28 amended: store_replicated_messages gives the list ordered by the
\* messages' timestamps in whatever order the messages arrive;
\* send_messages replaces each message's timestamp by the clock reading of
\* the call and leaves the list in the order of the calls.
C28_OrderByPath ==
    /\ [](reapplied.messages = ByGivenTimestamp(reapplied.message_history))
    /\ [][\A id \in AppendIds :
            (id \notin chat.message_history /\ id \in chat'.message_history)
                => chat'.messages = Append(chat.messages, Message(id, now))]_vars

C28_Witness ==
    /\ chat.message_history = AppendIds
    /\ reapplied.messages = ByGivenTimestamp(AppendIds)
    /\ chat.messages[1].id = MaxAppend
    /\ chat.messages[1].timestamp < chat.messages[MaxAppend].timestamp

(***************************************************************************)
(* SpecGet: several tasks of one node call ChatManager.get for the same    *)
(* token.  The metadata query inside Chat.load is where a task is          *)
(* suspended; the load ends with the row read or with the query's error.   *)
(***************************************************************************)
GetTasks == 1..NumGetters

IdleGetter == [pc |-> "idle", obj |-> 0, loaded |-> FALSE, registered |-> FALSE]

\* The index of the Chat that ChatManager._chats holds for the token, 0
\* when it holds none.
Registered ==
    IF \E i \in 1..Len(objects) : objects[i].registered
    THEN CHOOSE i \in 1..Len(objects) : objects[i].registered
    ELSE 0

InitGet ==
    /\ rows = <<>> /\ persistItems = <<>> /\ persistWork = <<>>
    /\ rpc = NoRpc
    /\ shutdown = <<>>
    /\ getters = [t \in GetTasks |-> IdleGetter]
    /\ objects = <<>>
    /\ pool = NoPool
    /\ idle = NoIdle
    /\ ChatIdle
    /\ now = 0
    /\ ReplIdle
    /\ ClusterIdle

\* The tasks that wait on loaded_event of object i are made runnable by
\* loaded_event.set().
WakeWaiters(i, except) ==
    [t \in GetTasks |->
        IF t # except /\ getters[t].pc = "waiting" /\ getters[t].obj = i
        THEN [getters[t] EXCEPT !.pc = "woken"]
        ELSE getters[t]]

\* get() up to its first suspension: a token that is not registered gets a
\* new Chat, registered before load() starts its query; a registered Chat
\* is returned when loaded and waited for otherwise.
GetEnter(t) ==
    /\ getters[t].pc = "idle"
    /\ IF Registered = 0
       THEN /\ Len(objects) < MaxObjects
            /\ objects' = Append(objects, [loaded |-> FALSE, registered |-> TRUE])
            /\ getters' = [getters EXCEPT ![t] = [IdleGetter EXCEPT !.pc = "loading",
                                                               !.obj = Len(objects) + 1]]
       ELSE /\ objects' = objects
            /\ getters' = [getters EXCEPT ![t] =
                   IF objects[Registered].loaded
                   THEN [pc |-> "returned", obj |-> Registered, loaded |-> TRUE,
                         registered |-> TRUE]
                   ELSE [IdleGetter EXCEPT !.pc = "waiting", !.obj = Registered]]
    /\ UNCHANGED <<storeVars, rpc, shutdown, pool, idle, now, replVars, clusterVars, chatVars>>

\* The query returns (a row, or NoResultFound): loaded_event is set and the
\* loading task returns the Chat.
GetLoadDone(t) ==
    /\ getters[t].pc = "loading"
    /\ objects' = [objects EXCEPT ![getters[t].obj].loaded = TRUE]
    /\ getters' = [WakeWaiters(getters[t].obj, t) EXCEPT ![t] =
                      [pc |-> "returned", obj |-> getters[t].obj, loaded |-> TRUE,
                       registered |-> objects[getters[t].obj].registered]]
    /\ UNCHANGED <<storeVars, rpc, shutdown, pool, idle, now, replVars, clusterVars, chatVars>>

\* The query raises: load sets and clears loaded_event and re-raises, get
\* removes the Chat and raises KeyError.
GetLoadFail(t) ==
    /\ getters[t].pc = "loading"
    /\ objects' = [objects EXCEPT ![getters[t].obj].registered = FALSE]
    /\ getters' = [WakeWaiters(getters[t].obj, t) EXCEPT ![t] =
                      [IdleGetter EXCEPT !.pc = "raised", !.obj = getters[t].obj]]
    /\ UNCHANGED <<storeVars, rpc, shutdown, pool, idle, now, replVars, clusterVars, chatVars>>

\* A task woken from wait_load runs: get returns the Chat it waited for.
GetResume(t) ==
    /\ getters[t].pc = "woken"
    /\ getters' = [getters EXCEPT ![t] =
                      [pc |-> "returned", obj |-> getters[t].obj,
                       loaded |-> objects[getters[t].obj].loaded,
                       registered |-> objects[getters[t].obj].registered]]
    /\ UNCHANGED <<storeVars, rpc, shutdown, objects, pool, idle, now, replVars, clusterVars, chatVars>>

NextGet ==
    \/ \E t \in GetTasks : GetEnter(t)
    \/ \E t \in GetTasks : GetLoadDone(t)
    \/ \E t \in GetTasks : GetLoadFail(t)
    \/ \E t \in GetTasks : GetResume(t)

SpecGet == InitGet /\ [][NextGet]_vars

\* C25: when several tasks call ChatManager.get for a token that is not
\* known yet, the first being suspended in the metadata load, every getter
\* that returns gets the one Chat registered for the token, and only after
\* its load has completed.
C25_OneLoadedChat ==
    \A t \in GetTasks :
        getters[t].pc = "returned" => (getters[t].loaded /\ getters[t].registered)

(***************************************************************************)
(* SpecStop: ChatServiceHandler.stop runs on a node that serves a chat     *)
(* with a long-polling reader.  shutdown is the sequence of the steps of   *)
(* stop that have been made.                                               *)
(***************************************************************************)
StopOrder ==
    << "garbage_collector.stop", "hashring.stop", "hashring.join",
       "replicator.stop", "persister.stop", "super.stop", "trigger_messages" >>

\* The next statement of stop().  The last one pulses message_event of
\* every chat, which makes a waiting reader runnable.
StopStep ==
    /\ Len(shutdown) < Len(StopOrder)
    /\ LET step == StopOrder[Len(shutdown) + 1]
       IN  /\ shutdown' = Append(shutdown, step)
           /\ poll' = IF step = "trigger_messages" /\ poll.state = "waiting"
                      THEN [poll EXCEPT !.state = "woken", !.woken = <<>>]
                      ELSE poll
    /\ UNCHANGED <<storeVars, rpc, getters, objects, pool, idle, chat, lastOp, reapplied, now,
                   replVars, clusterVars>>

NextStop ==
    \/ PairTick
    \/ \E asOf \in Times, user_id \in UserIds \cup {NoUserId}, block \in BOOLEAN :
            PollGetMessages(asOf, user_id, block)
    \/ \E type \in MessageRouteType, user_id \in UserIds :
            PollSendMessage(type, IF type = TARGETED_ROUTE THEN {user_id} ELSE {})
    \/ PollResume
    \/ PollTimeout
    \/ StopStep

SpecStop == InitPoll /\ [][NextStop]_vars

Done(step) == \E i \in 1..Len(shutdown) : shutdown[i] = step

\* C29: stop performs its steps in this order: the hashring is stopped and
\* has settled before the garbage collector is stopped, the garbage
\* collector before the replicator and the persister, these before the
\* message signals are pulsed, and the pulse before the clients of the
\* external stores are torn down.
C29_StopOrder ==
    /\ Done("garbage_collector.stop") => Done("hashring.stop") /\ Done("hashring.join")
    /\ Done("replicator.stop") => Done("garbage_collector.stop")
    /\ Done("persister.stop") => Done("garbage_collector.stop")
    /\ Done("trigger_messages") => Done("replicator.stop") /\ Done("persister.stop")
    /\ Done("super.stop") => Done("trigger_messages")

(***************************************************************************)
(* SpecCommit: the archive run with a store whose transactions can fail.   *)
(***************************************************************************)
\* A persister worker takes an item and the transaction fails at an insert
\* or at the commit: _create_persist_job has set chat.persisted before it
\* added the job, the rollback discards the job, the exception goes to the
\* item's result and the observers are not notified.
ClusterPersistFail(n, kind) ==
    /\ kind \in persistq[n]
    /\ ChatToken \in DOMAIN registry[n]
    /\ registry' = [registry EXCEPT ![n][ChatToken].persisted = TRUE]
    /\ persistq' = [persistq EXCEPT ![n] = @ \ {kind}]
    /\ UNCHANGED <<svcVars, settings, zk, view, db, outbox, net, removed, change,
                   sent, now, replRest, chatVars>>

NextCommit ==
    \/ \E n \in ClusterNodes, status \in {STARTED, ENDED}, N \in SendParams :
            ClusterSendMessage(n, status, N)
    \/ \E n \in ClusterNodes : ClusterSnapshotSend(n)
    \/ \E n \in ClusterNodes : ClusterSnapshotDeliver(n)
    \/ \E n \in ClusterNodes, kind \in {"ended", "zombie"} : ClusterPersist(n, kind)
    \/ \E n \in ClusterNodes, kind \in {"ended", "zombie"} : ClusterPersistFail(n, kind)
    \/ \E n \in ClusterNodes : ClusterGC(n)
    \/ \E n \in ClusterNodes : ClusterRead(n)
    \/ ClusterExpire

SpecCommit == InitArchive /\ [][NextCommit]_vars

\* The step is a persister worker of n finishing an item for the chat.
WorkerStep(n) ==
    /\ persistq'[n] # persistq[n]
    /\ persistq'[n] \subseteq persistq[n]
    /\ ChatToken \in DOMAIN registry[n]
    /\ ChatToken \in DOMAIN registry'[n]

\* C30: the persisted flag of a chat becomes true only in a worker step
\* whose transaction committed the archive job; after a failed insert or
\* commit the flag is still false.
C30_PersistedAfterCommit ==
    [][\A n \in ClusterNodes :
            (WorkerStep(n) /\ ~registry[n][ChatToken].persisted
                           /\ registry'[n][ChatToken].persisted)
            => db'.archive_jobs = db.archive_jobs + 1]_vars

(***************************************************************************)
(* C31  Completion of the replication result                               *)
(***************************************************************************)
\* The job can make no further step: no item is queued for it, its
\* coordinator has left _coordinate_replication and no send is in flight.
JobAtRest(j) ==
    /\ jobs[j].stage = "done"
    /\ jobs[j].workers = {}

\* C31: every result returned by Replicator.replicate completes, with
\* success or with an error, for every N >= 1 and W >= 1 and every pattern
\* of peer failures: once the job is at rest its result is not pending.
C31_ResultCompletes ==
    \A j \in JobIds : JobAtRest(j) => jobs[j].result # "pending"

(***************************************************************************)
(* C36  The coordinator's semaphore                                        *)
(***************************************************************************)
\* The number of slots of a job: max(W - s, 1), where s = 1 is the local
\* copy that replicate counted before it queued the item.
Slots(job) == IF job.W - 1 > 1 THEN job.W - 1 ELSE 1

\* A coordinator has taken the job's item (replicate queues one when N > 1).
Coordinated(job) ==
    \/ job.stage \in {"loop", "join"}
    \/ job.stage = "done" /\ job.N > 1

\* C36: at every moment the sends in flight for a job are at most
\* max(W - s, 1); every send in flight holds one slot, taken before it was
\* spawned and given back once when it completes.
C36_SendsWithinSlots ==
    \A j \in JobIds :
        Coordinated(jobs[j]) =>
            /\ Cardinality(jobs[j].workers) <= Slots(jobs[j])
            /\ jobs[j].semaphore >= 0
            /\ jobs[j].semaphore + Cardinality(jobs[j].workers) = Slots(jobs[j])

\* A job with W = 2 and N = 3 has one send in flight, no slot left and a
\* further node waiting in its preference queue.
C36_Witness ==
    \E j \in JobIds :
        /\ jobs[j].stage = "loop"
        /\ jobs[j].W = 2
        /\ jobs[j].N = 3
        /\ Cardinality(jobs[j].workers) = 1
        /\ jobs[j].semaphore = 0
        /\ jobs[j].preference_queue # <<>>

(***************************************************************************)
(* C37  Copies written by one job (SpecQuorum)                             *)
(***************************************************************************)
QuorumHolders(id) == {n \in QuorumNodes : Holds(registry[n], ChatToken, id)}

\* C37: a replication job with parameters (N, W), W <= N, never leaves
\* more than N nodes, the local one counted, holding its messages.
C37_AtMostNCopies ==
    \A j \in JobIds :
        (jobs[j].stage # "none" /\ jobs[j].W <= jobs[j].N)
            => Cardinality(QuorumHolders(jobs[j].id)) <= jobs[j].N

(***************************************************************************)
(* SpecDrain: the greenlet pool of the replicator (the persister's is the  *)
(* same code): a bounded queue, PoolSize workers in run(), callers that    *)
(* queue items, and stop().  A greenlet is suspended only in queue.get on  *)
(* an empty queue, in queue.put on a full queue, and while it works on an  *)
(* item.                                                                   *)
(***************************************************************************)
PoolWorkers == 1..PoolSize
\* The items of the queue: work items by number, and the stop marker.
WorkItem(id) == [stop |-> FALSE, id |-> id]
STOP_ITEM == [stop |-> TRUE, id |-> 0]

InitDrain ==
    /\ rows = <<>> /\ persistItems = <<>> /\ persistWork = <<>>
    /\ rpc = NoRpc
    /\ shutdown = <<>> /\ getters = <<>> /\ objects = <<>>
    /\ idle = NoIdle
    /\ pool = [NoPool EXCEPT !.running = TRUE,
                             !.workers = [w \in PoolWorkers |-> [pc |-> "get", item |-> STOP_ITEM]]]
    /\ ChatIdle
    /\ now = 0
    /\ ReplIdle
    /\ ClusterIdle

\* run() from the test of self.running to its next suspension, for a
\* worker that has just finished an item (or was just woken in get).
RunLoop(p, w, checkRunning) ==
    IF checkRunning /\ ~p.running
    THEN [p EXCEPT !.workers[w] = [pc |-> "exited", item |-> STOP_ITEM]]
    ELSE IF p.queue = <<>>
         THEN [p EXCEPT !.workers[w] = [pc |-> "get", item |-> STOP_ITEM]]
         ELSE IF Head(p.queue) = STOP_ITEM
              THEN [p EXCEPT !.queue = Tail(@),
                             !.workers[w] = [pc |-> "exited", item |-> STOP_ITEM]]
              ELSE [p EXCEPT !.queue = Tail(@),
                             !.workers[w] = [pc |-> "busy", item |-> Head(p.queue)]]

\* replicate() / persist() before stop(): queue.put(item).
PoolSubmit ==
    /\ pool.stop = "none"
    /\ pool.submitted < MaxPoolItems
    /\ Len(pool.queue) < MaxPoolQueue
    /\ pool' = [pool EXCEPT !.submitted = @ + 1, !.queue = Append(@, WorkItem(pool.submitted + 1))]
    /\ UNCHANGED <<storeVars, rpc, shutdown, getters, objects, idle, now,
                   replVars, clusterVars, chatVars>>

\* A worker suspended in queue.get() is handed the next item.
PoolGet(w) ==
    /\ pool.workers[w].pc = "get"
    /\ pool.queue # <<>>
    /\ pool' = RunLoop(pool, w, FALSE)
    /\ UNCHANGED <<storeVars, rpc, shutdown, getters, objects, idle, now,
                   replVars, clusterVars, chatVars>>

\* A worker's item is done: back to the head of the loop.
PoolFinish(w) ==
    /\ pool.workers[w].pc = "busy"
    /\ pool' = RunLoop([pool EXCEPT !.processed = @ \cup {pool.workers[w].item.id}], w, TRUE)
    /\ UNCHANGED <<storeVars, rpc, shutdown, getters, objects, idle, now,
                   replVars, clusterVars, chatVars>>

\* The STOP_ITEMs that stop() puts before queue.put suspends it on a full
\* queue; after the last one stop() returns.
PutStops(p) ==
    LET room == MaxPoolQueue - Len(p.queue)
        left == PoolSize - p.stops
        k == IF room < left THEN room ELSE left
    IN  [p EXCEPT !.queue = @ \o [i \in 1..k |-> STOP_ITEM],
                  !.stops = @ + k,
                  !.stop = IF k = left THEN "returned" ELSE "putting"]

\* stop(): running becomes False and one STOP_ITEM per worker is put.
PoolStop ==
    /\ pool.stop = "none"
    /\ pool.running
    /\ pool' = PutStops([pool EXCEPT !.running = FALSE])
    /\ UNCHANGED <<storeVars, rpc, shutdown, getters, objects, idle, now,
                   replVars, clusterVars, chatVars>>

\* stop() suspended in queue.put goes on when the queue has room.
PoolStopPut ==
    /\ pool.stop = "putting"
    /\ Len(pool.queue) < MaxPoolQueue
    /\ pool' = PutStops(pool)
    /\ UNCHANGED <<storeVars, rpc, shutdown, getters, objects, idle, now,
                   replVars, clusterVars, chatVars>>

NextDrain ==
    \/ PoolSubmit
    \/ \E w \in PoolWorkers : PoolGet(w)
    \/ \E w \in PoolWorkers : PoolFinish(w)
    \/ PoolStop
    \/ PoolStopPut

SpecDrain == InitDrain /\ [][NextDrain]_vars

AllExited == \A w \in PoolWorkers : pool.workers[w].pc = "exited"

\* Every item queued before stop() has been processed.
PoolDrained == pool.processed = 1..pool.submitted

\* stop() has returned or can go on: it is not suspended on a full queue.
PoolStopReturns == pool.stop = "putting" => Len(pool.queue) < MaxPoolQueue

\* C32: stopping the pool drains its queue: when the workers have exited,
\* every item that was queued before stop() has been processed, and stop()
\* is not left suspended on a full queue.
C32_StopDrains ==
    AllExited => (PoolDrained /\ PoolStopReturns)

(***************************************************************************)
(* C35  Waiters of a load that fails (SpecGet)                             *)
(***************************************************************************)
\* The load of object i raised: get removed the Chat from the registry
\* without its loaded_event staying set.
LoadFailed(i) == ~objects[i].registered /\ ~objects[i].loaded

\* C35: when the metadata load of a newly referenced chat fails while
\* other tasks wait in ChatManager.get for the token, no task returns the
\* Chat whose load failed.
C35_WaitersOfFailedLoad ==
    \A t \in GetTasks :
        (getters[t].obj # 0 /\ LoadFailed(getters[t].obj)) => getters[t].pc # "returned"

(***************************************************************************)
(* C33  What a garbage-collection pass removes and reports (SpecArchive)   *)
(***************************************************************************)
\* The step is the collector of n removing the chat from n's registry.
GcRemoves(n) ==
    /\ ChatToken \in DOMAIN registry[n]
    /\ ChatToken \notin DOMAIN registry'[n]
    /\ removed'.path = "gc"
    /\ removed'.node = n

\* The step hands a zombie event for the chat to the persister of n.
GcZombie(n) ==
    /\ ChatToken \in DOMAIN registry[n]
    /\ "zombie" \in persistq'[n]
    /\ "zombie" \notin persistq[n]

InitForward == \E hashring \in SUBSET Positions : InitClusterWith(hashring, NewModel)

\* The handler method on node h up to the local try block: no primary,
\* forward to the primary of h's view, or serve.
Resolve(name, o, h, path) ==
    LET primary_node == _primary_node(ChatToken, view[h])
    IN  IF primary_node = NoNode
        THEN [RpcRecord(name, o, h, "Unavailable", path, FALSE) EXCEPT !.empty = TRUE]
        ELSE IF _is_remote_node(h, primary_node)
             THEN RpcRecord(name, o, primary_node, "forwarded", path, FALSE)
             ELSE RpcRecord(name, o, h, "ok", path, FALSE)

\* A client's call arrives at node o.
ForwardArrive(o, name) ==
    /\ rpc.result # "forwarded"
    /\ rpc' = Resolve(name, o, o, <<o>>)
    /\ UNCHANGED <<storeVars, taskVars, now, replVars, clusterVars, chatVars>>

\* The proxy call reaches the node it was forwarded to, which runs the same
\* handler method.
ForwardHop ==
    /\ rpc.result = "forwarded"
    /\ Len(rpc.value) < MaxHops
    /\ rpc' = Resolve(rpc.name, rpc.node, rpc.served, Append(rpc.value, rpc.served))
    /\ UNCHANGED <<storeVars, taskVars, now, replVars, clusterVars, chatVars>>

NextForward ==
    \/ \E o \in ClusterNodes, name \in {"getMessages", "sendMessage"} : ForwardArrive(o, name)
    \/ ForwardHop
    \/ \E p \in Positions : ZkRegister(p)
    \/ \E n \in ClusterNodes : ZkLeave(n)
    \/ \E n \in ClusterNodes : ClusterDeliverView(n)

SpecForward == InitForward /\ [][NextForward]_vars

\* C34: a call that a node forwards to the node it considers primary is
\* served there and never forwarded again, whatever views the two nodes
\* hold while a membership change is being delivered: a call on its way
\* has been received by one node only.
C34_ForwardedOnce == rpc.result = "forwarded" => Len(rpc.value) <= 1

(***************************************************************************)
(* SpecEndFailed: sendMessage calls that end the chat fail after the       *)
(* message was appended: the quorum is not reached or the wait times out,  *)
(* and the call leaves through an except branch before persister.persist.  *)
(* The collector's cycle and the workers keep running.                     *)
(***************************************************************************)
\* sendMessage(message, N = 2, W = 2) on the primary that raises in
\* async_result.get: the handler has run, the message is stored and the
\* replication item is queued; persister.persist is not reached.
ClusterSendFailed(n, status) ==
    /\ sent < MaxSends
    /\ IsPrimary(n)
    /\ LET reg == ChatManagerGet(registry[n], ChatToken, db)
           message == Message(sent + 1, now)
           handled == _handle_chat_status(reg[ChatToken], status, now)
           stored == send_messages(handled, <<message>>, now)
           items == ReplicationItems(<<message>>, FALSE, REPLICATION_N, <<>>)
       IN  /\ ~expired(reg[ChatToken], now)
           /\ Len(outbox[n]) + Len(items) <= MaxQueue
           /\ registry' = [registry EXCEPT ![n] = [reg EXCEPT ![ChatToken] = stored]]
           /\ db' = IF handled # reg[ChatToken] THEN ChatSave(handled, db) ELSE db
           /\ outbox' = [outbox EXCEPT ![n] = @ \o items]
    /\ sent' = sent + 1
    /\ now' = now + 1
    /\ UNCHANGED <<svcVars, settings, zk, view, net, persistq, removed, change,
                   replRest, chatVars>>

NextEndFailed ==
    \/ \E n \in ClusterNodes, N \in SendParams : ClusterSendMessage(n, STARTED, N)
    \/ \E n \in ClusterNodes : ClusterSendFailed(n, ENDED)
    \/ \E n \in ClusterNodes : ClusterSnapshotSend(n)
    \/ \E n \in ClusterNodes : ClusterSnapshotDeliver(n)
    \/ \E n \in ClusterNodes : ClusterPersist(n, "zombie")
    \/ \E n \in ClusterNodes : ClusterGC(n)

FairEndFailed ==
    \A n \in ClusterNodes :
        /\ WF_vars(ClusterGC(n))
        /\ WF_vars(ClusterPersist(n, "zombie"))
        /\ WF_vars(ClusterSnapshotSend(n))
        /\ WF_vars(ClusterSnapshotDeliver(n))

SpecEndFailed == InitCluster /\ [][NextEndFailed]_vars /\ FairEndFailed

\* Node n holds the chat with an end time, not persisted, and no persist
\* item of a send is queued for it.
EndedUnpersisted(n) ==
    /\ ChatToken \in DOMAIN registry[n]
    /\ completed(registry[n][ChatToken])
    /\ ~registry[n][ChatToken].persisted
    /\ "ended" \notin persistq[n]

InitRetire == InitCluster /\ settings = TestSettings

NextRetire ==
    \/ \E n \in ClusterNodes, status \in {STARTED, ENDED} :
            ClusterSendMessage(n, status, REPLICATION_N)
    \/ \E n \in ClusterNodes : ClusterSnapshotSend(n)
    \/ \E n \in ClusterNodes : ClusterSnapshotDeliver(n)
    \/ \E n \in ClusterNodes : n # _primary_node(ChatToken, zk) /\ ZkLeave(n)
    \/ \E n \in ClusterNodes : ClusterDeliverView(n)
    \/ \E n \in ClusterNodes, kind \in {"ended", "zombie"} : ClusterPersist(n, kind)
    \/ \E n \in ClusterNodes : ClusterGC(n)

FairRetire ==
    \A n \in ClusterNodes :
        /\ WF_vars(ClusterGC(n))
        /\ WF_vars(ClusterPersist(n, "ended"))
        /\ WF_vars(ClusterPersist(n, "zombie"))
        /\ WF_vars(ClusterSnapshotSend(n))
        /\ WF_vars(ClusterSnapshotDeliver(n))
        /\ WF_vars(ClusterDeliverView(n))

SpecRetire == InitRetire /\ [][NextRetire]_vars /\ FairRetire

\* The chat has ended and its primary holds it persisted.
EndedAndPersisted ==
    \E n \in ClusterNodes :
        /\ IsPrimary(n)
        /\ ChatToken \in DOMAIN registry[n]
        /\ completed(registry[n][ChatToken])
        /\ registry[n][ChatToken].persisted

NoCopyLeft == \A n \in ClusterNodes : ChatToken \notin DOMAIN registry[n]

\* C39: every chat that has ended and been persisted on its primary is
\* eventually removed from the registry of every node that holds a copy,
\* nodes that were replicas and have dropped out of the preference list
\* included.
C39_EveryCopyRemoved == EndedAndPersisted ~> NoCopyLeft

(***************************************************************************)
(* SpecIdle: the users of a chat stop polling and other getMessages calls  *)
(* run handle_poll concurrently.  Each generated USER_STATUS message goes  *)
(* through sendMessage, whose wait for the replication result suspends     *)
(* the task (REPLICATION_W = 2).                                           *)
(***************************************************************************)
PollTasks == 1..NumPollers
AVAILABLE == "AVAILABLE"
UNAVAILABLE == "UNAVAILABLE"

InitIdle ==
    /\ rows = <<>> /\ persistItems = <<>> /\ persistWork = <<>>
    /\ rpc = NoRpc
    /\ shutdown = <<>> /\ getters = <<>> /\ objects = <<>>
    /\ pool = NoPool
    /\ idle = [users |-> [u \in UserIds |->
                            [status |-> AVAILABLE, updateTimestamp |-> 0, episode |-> 1]],
               tasks |-> [t \in PollTasks |-> [pc |-> "idle", pending |-> <<>>]],
               appended |-> <<>>]
    /\ ChatIdle
    /\ now = 0
    /\ ReplIdle
    /\ ClusterIdle

\* The users handle_poll finds idle, in the order of their ids.
RECURSIVE IdleUsers(_, _, _)
IdleUsers(users, t, candidates) ==
    IF candidates = {}
    THEN <<>>
    ELSE LET u == CHOOSE x \in candidates : \A y \in candidates : x <= y
         IN  (IF users[u].status # UNAVAILABLE /\ t - users[u].updateTimestamp > idle_threshold
              THEN <<u>> ELSE <<>>) \o IdleUsers(users, t, candidates \ {u})

\* handle_poll: the polling user's updateTimestamp is refreshed, then one
\* message is built for every idle user.
handle_poll(users, user_id, t) ==
    LET touched == IF user_id \in DOMAIN users
                   THEN [users EXCEPT ![user_id].updateTimestamp = t]
                   ELSE users
    IN  [users |-> touched, result |-> IdleUsers(touched, t, DOMAIN touched)]

\* sendMessage of a generated message up to the wait for the replication
\* result: _handle_user_status sets the status and the timestamp, and the
\* message is appended to the chat.
SendUnavailable(s, u, t) ==
    [s EXCEPT !.users[u].status = UNAVAILABLE,
              !.users[u].updateTimestamp = t,
              !.appended = Append(@, [user |-> u, episode |-> s.users[u].episode])]

\* The loop of getMessages over the generated messages, from one
\* suspension to the next: the next message is sent, or the read is done
\* and the call returns.
PollLoop(s, task, pending, t) ==
    IF pending = <<>>
    THEN [s EXCEPT !.tasks[task] = [pc |-> "idle", pending |-> <<>>]]
    ELSE [SendUnavailable(s, Head(pending), t)
             EXCEPT !.tasks[task] = [pc |-> "sending", pending |-> Tail(pending)]]

\* More than the idle threshold passes.
IdleTick ==
    /\ now < MaxIdleTicks * (idle_threshold + 1)
    /\ now' = now + idle_threshold + 1
    /\ UNCHANGED <<svcVars, replVars, clusterVars, chatVars>>

\* getMessages of a task that polls as user_id (a user of the chat or an
\* id that has not joined).
IdlePoll(task, user_id) ==
    /\ idle.tasks[task].pc = "idle"
    /\ LET polled == handle_poll(idle.users, user_id, now)
       IN  idle' = PollLoop([idle EXCEPT !.users = polled.users], task, polled.result, now)
    /\ UNCHANGED <<storeVars, rpc, shutdown, getters, objects, pool, now,
                   replVars, clusterVars, chatVars>>

\* The replication result of the task's sendMessage is set: the loop goes on.
IdleSendReturn(task) ==
    /\ idle.tasks[task].pc = "sending"
    /\ idle' = PollLoop(idle, task, idle.tasks[task].pending, now)
    /\ UNCHANGED <<storeVars, rpc, shutdown, getters, objects, pool, now,
                   replVars, clusterVars, chatVars>>

\* The replication fails or times out: sendMessage raises and getMessages
\* leaves with UnavailableException.
IdleSendFail(task) ==
    /\ idle.tasks[task].pc = "sending"
    /\ idle' = [idle EXCEPT !.tasks[task] = [pc |-> "idle", pending |-> <<>>]]
    /\ UNCHANGED <<storeVars, rpc, shutdown, getters, objects, pool, now,
                   replVars, clusterVars, chatVars>>

\* A user comes back: the client sends USER_STATUS AVAILABLE, which ends
\* the idle episode.
IdleReturn(u) ==
    /\ idle.users[u].status = UNAVAILABLE
    /\ idle.users[u].episode < MaxEpisodes
    /\ idle' = [idle EXCEPT !.users[u] = [status |-> AVAILABLE, updateTimestamp |-> now,
                                          episode |-> @.episode + 1]]
    /\ UNCHANGED <<storeVars, rpc, shutdown, getters, objects, pool, now,
                   replVars, clusterVars, chatVars>>

NextIdle ==
    \/ IdleTick
    \/ \E task \in PollTasks, user_id \in UserIds \cup {NoUserId} : IdlePoll(task, user_id)
    \/ \E task \in PollTasks : IdleSendReturn(task)
    \/ \E task \in PollTasks : IdleSendFail(task)
    \/ \E u \in UserIds : IdleReturn(u)

SpecIdle == InitIdle /\ [][NextIdle]_vars

UnavailableCount(u, e) ==
    Cardinality({i \in DOMAIN idle.appended : idle.appended[i] = [user |-> u, episode |-> e]})

\* C40: for each user who goes idle at most one USER_STATUS message that
\* sets UNAVAILABLE is appended to the chat per idle episode, also when
\* several getMessages polls run concurrently and several users are idle
\* at once.
C40_OneUnavailablePerEpisode ==
    \A u \in UserIds, e \in 1..MaxEpisodes : UnavailableCount(u, e) <= 1

=============================================================================
